---- MODULE Spec2Model ----
(***************************************************************************)
(* Fantasy-NBA-Analytics: the predictions endpoint's matchup filter, the   *)
(* per-week category comparison, the live projection arithmetic, the       *)
(* league statistics, TeamVsLeague's loading and effect runs, the current  *)
(* week's snapshot store, LivePredictions and the Chatbot.  These state    *)
(* machines share this module; each specification drives one of them and   *)
(* leaves the others idle.                                                 *)
(***************************************************************************)
EXTENDS Integers, Sequences, FiniteSets, TLC

VARIABLES
    \* ---- predictions endpoint: matchup filter ----
    schedule,       \* the week's box-score matchups, each [home_name, away_name]
    team1,          \* request parameter team1 (a character sequence)
    team2,          \* request parameter team2
    mi,             \* index of the next matchup the filter loop looks at
    predictions,    \* the response's "predictions" list (matchups that passed)
    prediction,     \* what LivePredictions shows: predictions[0] or NoPrediction
    mpc,            \* "idle" | "scan" | "done"
    \* ---- one week's snapshot and the TeamVsLeague view of it ----
    raw_totals,     \* raw per-team stat totals handed to the snapshot builder so far
    weekData,       \* the week's snapshot: weekData.teams (<<>> until built)
    selectedTeam,   \* TeamVsLeague.selectedTeam ("" = none)
    showOpponentModal,
    wpc,            \* "build" | "ready"
    \* ---- live projection of one matchup ----
    pin,            \* what the prediction request works on
    totals,         \* project_team_stats' result for the home and the away team
    pred,           \* the response's prediction object
    ppc,            \* "idle" | "team1" | "team2" | "projected" | "responded" | "shown"
    \* ---- season history and league statistics ----
    season,         \* one outcome per week so far; the last week is in progress
    stats,          \* LeagueOverview's /league/stats response (NoStats until fetched)
    showImprovementModal,
    \* ---- TeamVsLeague: weeks of the season loaded into the component ----
    weeks,          \* /weeks, sorted (<<>> until loaded)
    currentWeek,    \* summary.current_matchup_period (0 = null)
    selectedWeek,   \* 0 = null
    swrCache,       \* SWR's data per week key <<week, live>>
    swrPending,     \* a fetch of the selected week's key is in flight
    allWeeksData,   \* week -> snapshot (NoSnapshot = no entry)
    load,           \* the historical load in flight, if any
    loading,
    graphData,
    requests,       \* the fetches issued so far: <<week, "plain" | "live" | "mutate">>
    liveRev,        \* revision of the current week's live data at the backend
    \* ---- TeamVsLeague: the runs of the historical-weeks effect ----
    cancelledLoads, \* loads whose effect run was cleaned up, still in flight
    cancelledSettled, \* some cleaned-up load has resolved since
    allWeeksRef,    \* identity of the object held in allWeeksData, modulo 2
    renderPending,  \* an effect has set state: the component will render again
    \* ---- the current week's snapshot under one writer and several readers ----
    currentSnapshot,
    building,       \* the snapshot the writer is putting together
    readers,
    \* ---- LivePredictions (axios): matchup selector and its prediction ----
    matchups,               \* /predictions/matchups (<<>> until loaded)
    selectedMatchupIndex,   \* 0 = null
    livePrediction,         \* the component's prediction state (NoLive = null)
    loadingMatchups,
    loadingPrediction,
    error,                  \* "" = null
    inflight,               \* prediction requests not yet answered
    issued,                 \* number of prediction requests sent so far
    \* ---- Chatbot ----
    messages,
    input,                  \* the text field, a character sequence
    chatLoading,            \* Chatbot's loading flag
    chatPending,            \* the queries of the POST /chatbot requests in flight
    sends                   \* number of accepted sends so far

mvars == <<schedule, team1, team2, mi, predictions, prediction, mpc>>
wvars == <<raw_totals, weekData, selectedTeam, showOpponentModal, wpc>>
pvars == <<pin, totals, pred, ppc>>
svars == <<season, stats, showImprovementModal>>
lvars == <<weeks, currentWeek, selectedWeek, swrCache, swrPending, allWeeksData,
           load, loading, graphData, requests, liveRev>>
evars == <<cancelledLoads, cancelledSettled, allWeeksRef, renderPending>>
tvars == <<currentSnapshot, building, readers>>
ivars == <<matchups, selectedMatchupIndex, livePrediction, loadingMatchups,
           loadingPrediction, error, inflight, issued>>
cvars == <<messages, input, chatLoading, chatPending, sends>>
vars == <<mvars, wvars, pvars, svars, lvars, tvars, ivars, cvars, evars>>
\* what each component leaves alone
notMatcher == <<wvars, pvars, svars, lvars, tvars, ivars, cvars, evars>>
notWeek == <<mvars, pvars, svars, lvars, tvars, ivars, cvars, evars>>
notProjection == <<mvars, wvars, svars, lvars, tvars, ivars, cvars, evars>>
notStats == <<mvars, wvars, pvars, lvars, tvars, ivars, cvars, evars>>
notStore == <<mvars, wvars, pvars, svars, lvars, ivars, cvars, evars>>
\* TeamVsLeague's loading shares selectedTeam with the week view
notLoad == <<mvars, pvars, svars, tvars, raw_totals, weekData, showOpponentModal, wpc, ivars, cvars, evars>>
notLive == <<mvars, wvars, pvars, svars, lvars, tvars, cvars, evars>>
notChat == <<mvars, wvars, pvars, svars, lvars, tvars, ivars, evars>>

(***************************************************************************)
(* Bounds                                                                  *)
(***************************************************************************)
NumTeams == 4
MaxMatchups == 2
\* Largest raw count in a team's weekly box score.
MaxVal == 1
\* Number of scoring periods in the matchup week.
MaxPeriod == 2
\* Number of weeks of the season, the one in progress included.
MaxWeeks == 9
\* Number of weeks TeamVsLeague can load, the current one included.
LoadWeeks == 3
\* Number of revisions the current week's live data goes through.
MaxRev == 2
\* Number of concurrent readers of the current week's snapshot.
NumReaders == 2

(***************************************************************************)
(* Team names are character sequences, so that str.lower() is a real       *)
(* conversion.                                                             *)
(***************************************************************************)
UpperChars == <<"A", "B", "C", "D", "E", "F", "T">>
LowerChars == <<"a", "b", "c", "d", "e", "f", "t">>

LowerChar(c) ==
    IF \E i \in DOMAIN UpperChars : UpperChars[i] = c
    THEN LowerChars[CHOOSE i \in DOMAIN UpperChars : UpperChars[i] = c]
    ELSE c

\* Python str.lower()
lower(s) == [i \in DOMAIN s |-> LowerChar(s[i])]

TeamIds == 1 .. NumTeams
\* The name the league gives team i: "TA", "TB", ...
TeamName(i) == <<"T", UpperChars[i]>>
ScheduleNames == {TeamName(i) : i \in TeamIds}
\* What a caller may send: a league name, its lower-case spelling, or nothing.
RequestNames == ScheduleNames \cup {lower(n) : n \in ScheduleNames} \cup {<<>>}

NoPrediction == [home_name |-> <<>>, away_name |-> <<>>]

Matchups == {[home_name |-> h, away_name |-> a] : h, a \in ScheduleNames} \
            {[home_name |-> h, away_name |-> h] : h \in ScheduleNames}

Teams(m) == {m.home_name, m.away_name}

RECURSIVE SchedulesOfLen(_)
SchedulesOfLen(n) ==
    IF n = 0 THEN {<<>>}
    ELSE {Append(s, m) : s \in SchedulesOfLen(n - 1), m \in Matchups}

\* A week's schedule: every team plays in at most one matchup.
IsSchedule(s) ==
    \A i, j \in DOMAIN s : i # j => Teams(s[i]) \cap Teams(s[j]) = {}

Schedules ==
    {s \in UNION {SchedulesOfLen(n) : n \in 1 .. MaxMatchups} : IsSchedule(s)}

(***************************************************************************)
(* The filter of the predictions endpoint ("Current Code").                *)
(***************************************************************************)
NotStr(s) == s = <<>>

\* A filter that would behave as the checklist's "Potential Issue" note says.
MatchupFilterEitherName(t1, t2, home_name, away_name) ==
    \/ (NotStr(t1) /\ NotStr(t2))
    \/ lower(t1) \in {lower(home_name), lower(away_name)}
    \/ lower(t2) \in {lower(home_name), lower(away_name)}

MatchupFilter(t1, t2, home_name, away_name) ==
    \/ (NotStr(t1) /\ NotStr(t2))
    \/ /\ lower(t1) \in {lower(home_name), lower(away_name)}
       /\ lower(t2) \in {lower(home_name), lower(away_name)}

\* An exact-pair filter that forgets the swapped order.
FixNeededHomeFirst(t1, t2, home_name, away_name) ==
    \/ (NotStr(t1) /\ NotStr(t2))
    \/ (lower(t1) = lower(home_name) /\ lower(t2) = lower(away_name))

\* The replacement the checklist proposes ("Fix Needed").
FixNeededFilter(t1, t2, home_name, away_name) ==
    \/ (NotStr(t1) /\ NotStr(t2))
    \/ (lower(t1) = lower(home_name) /\ lower(t2) = lower(away_name))
    \/ (lower(t1) = lower(away_name) /\ lower(t2) = lower(home_name))

MIdle ==
    /\ schedule = <<>>
    /\ team1 = <<>>
    /\ team2 = <<>>
    /\ mi = 1
    /\ predictions = <<>>
    /\ prediction = NoPrediction
    /\ mpc = "idle"

MStart ==
    /\ schedule \in Schedules
    /\ team1 = <<>>
    /\ team2 = <<>>
    /\ mi = 1
    /\ predictions = <<>>
    /\ prediction = NoPrediction
    /\ mpc = "idle"

\* GET /predictions?live=true&team1=..&team2=..
GetPredictions(t1, t2) ==
    /\ mpc = "idle"
    /\ team1' = t1
    /\ team2' = t2
    /\ mi' = 1
    /\ predictions' = <<>>
    /\ prediction' = NoPrediction
    /\ mpc' = "scan"
    /\ UNCHANGED <<schedule, notMatcher>>

\* One iteration of the loop over the week's box scores.
FilterMatchup ==
    /\ mpc = "scan"
    /\ mi <= Len(schedule)
    /\ predictions' =
         IF MatchupFilter(team1, team2, schedule[mi].home_name, schedule[mi].away_name)
         THEN Append(predictions, schedule[mi])
         ELSE predictions
    /\ mi' = mi + 1
    /\ UNCHANGED <<schedule, team1, team2, prediction, mpc, notMatcher>>

\* The response arrives; the component shows predictions[0] when there is one.
ShowPrediction ==
    /\ mpc = "scan"
    /\ mi > Len(schedule)
    /\ prediction' = IF Len(predictions) > 0 THEN predictions[1] ELSE NoPrediction
    /\ mpc' = "done"
    /\ UNCHANGED <<schedule, team1, team2, mi, predictions, notMatcher>>

MNext ==
    \/ \E t1, t2 \in RequestNames : GetPredictions(t1, t2)
    \/ FilterMatchup
    \/ ShowPrediction

(***************************************************************************)
(* Claims about the matchup filter                                         *)
(***************************************************************************)
Supplied == team1 # <<>> /\ team2 # <<>>

\* The two supplied names are exactly the two participants of m.
ExactPair(t1, t2, m) ==
    {lower(t1), lower(t2)} = {lower(m.home_name), lower(m.away_name)}

Returned(m) == \E k \in DOMAIN predictions : predictions[k] = m

\* C1: when no scheduled matchup has the two supplied names as its two
\* participants, the request yields no matchup (NoSuchMatchupError), even when
\* each name plays in some matchup of the schedule.
C1_NoMatchWithoutExactPair ==
    (mpc = "done" /\ Supplied
       /\ \A k \in DOMAIN schedule : ~ExactPair(team1, team2, schedule[k]))
    => (prediction = NoPrediction /\ predictions = <<>>)

\* The instance the specification names: ("Team A", "Team C") against
\* {Team A, Team B} and {Team C, Team D} resolves to nothing.
CrossMatchupPairRejected ==
    (mpc = "done"
       /\ lower(team1) = lower(TeamName(1)) /\ lower(team2) = lower(TeamName(3))
       /\ \E i, j \in DOMAIN schedule :
             /\ Teams(schedule[i]) = {TeamName(1), TeamName(2)}
             /\ Teams(schedule[j]) = {TeamName(3), TeamName(4)})
    => prediction = NoPrediction

\* C2: a scheduled matchup is returned exactly when the set of the two supplied
\* names equals the set of its two participants, case-insensitively; swapping
\* the names or changing their case changes nothing, and a pair naming one team
\* twice matches nothing.
C2_ReturnedIffExactPair ==
    /\ (mpc = "done" /\ Supplied)
         => /\ \A k \in DOMAIN schedule :
                   Returned(schedule[k]) <=> ExactPair(team1, team2, schedule[k])
            /\ (lower(team1) = lower(team2) => prediction = NoPrediction)
    /\ \A k \in DOMAIN schedule :
         LET h == schedule[k].home_name
             a == schedule[k].away_name
         IN /\ MatchupFilter(team1, team2, h, a) = MatchupFilter(team2, team1, h, a)
            /\ MatchupFilter(team1, team2, h, a)
                 = MatchupFilter(lower(team1), lower(team2), h, a)

\* The lower-cased names of a matchup's two sides.
LowerTeams(m) == {lower(m.home_name), lower(m.away_name)}

\* "Team A" and "Team B" requested while the schedule holds Team A vs Team C.
SharedNameCase(k) ==
    /\ mpc = "done"
    /\ lower(team1) = lower(TeamName(1))
    /\ lower(team2) = lower(TeamName(2))
    /\ Teams(schedule[k]) = {TeamName(1), TeamName(3)}

DistinctNames == Supplied /\ lower(team1) # lower(team2)

CATEGORIES == <<"PTS", "REB", "AST", "STL", "BLK", "FG%", "FT%", "3PM", "TO">>

Cats == {CATEGORIES[i] : i \in DOMAIN CATEGORIES}
RatioCats == {"FG%", "FT%"}

\* A number is a fraction <<numerator, denominator>>; a category a record does
\* not carry (JavaScript undefined) has denominator 0.
Undefined == <<0, 0>>
Num(n) == <<n, 1>>
IsUndefined(v) == v[2] = 0

\* v ?? 0
OrZero(v) == IF IsUndefined(v) THEN Num(0) ELSE v

\* a < b, a === b on numbers
Less(a, b) == a[1] * b[2] < b[1] * a[2]
NumEq(a, b) == a[1] * b[2] = b[1] * a[2]

isBetterIgnoringTO(cat, a, b) == Less(b, a)

isBetterOrEqual(cat, a, b) == IF cat = "TO" THEN ~Less(b, a) ELSE ~Less(a, b)

isBetter(cat, a, b) == IF cat = "TO" THEN Less(a, b) ELSE Less(b, a)

\* Number.prototype.toFixed: the value rounded to `digits` decimals, kept as
\* the integer value * 10^digits.
Pow10(k) == IF k = 0 THEN 1 ELSE IF k = 1 THEN 10 ELSE IF k = 2 THEN 100 ELSE 1000
toFixed(v, digits) == (2 * v[1] * Pow10(digits) + v[2]) \div (2 * v[2])

\* OpponentDetailModal.fmt: what a cell shows.
fmt(cat, v) ==
    IF cat \in RatioCats
    THEN [text |-> "percent", tenths |-> toFixed(<<v[1] * 100, v[2]>>, 1)]
    ELSE IF cat = "TO"
    THEN [text |-> "number", tenths |-> 10 * toFixed(v, 0)]
    ELSE [text |-> "number", tenths |-> toFixed(v, 1)]

\* ---- the week's teams and the raw totals they may bring ----
WeekTeamNames == <<"Team A", "Team B", "Team C">>

\* Team A plays Team B this week; Team C has no scheduled opponent.
ScheduledOpponent(name) ==
    IF name = "Team A" THEN "Team B" ELSE IF name = "Team B" THEN "Team A" ELSE ""

\* Box scores of the week: x counts for PTS/REB/AST, y for STL/BLK/3PM, z
\* turnovers; x of x + y field goals made, y of y + z free throws made.
RawTotals ==
    {[PTS |-> x, REB |-> x, AST |-> x, STL |-> y, BLK |-> y, TPM |-> y, TO |-> z,
      FGM |-> x, FGA |-> x + y, FTM |-> y, FTA |-> y + z] :
        x \in 0 .. MaxVal, y \in 0 .. MaxVal, z \in {0, 1}}

\* made / attempted, or no value at all when nothing was attempted
Ratio(made, attempted) == IF attempted > 0 THEN <<made, attempted>> ELSE Undefined

\* SnapshotBuilder: one TeamWeekRecord from a team's raw totals.
category_totals(raw) ==
    [c \in Cats |->
        CASE c = "PTS" -> Num(raw.PTS)
          [] c = "REB" -> Num(raw.REB)
          [] c = "AST" -> Num(raw.AST)
          [] c = "STL" -> Num(raw.STL)
          [] c = "BLK" -> Num(raw.BLK)
          [] c = "3PM" -> Num(raw.TPM)
          [] c = "TO"  -> Num(raw.TO)
          [] c = "FG%" -> Ratio(raw.FGM, raw.FGA)
          [] c = "FT%" -> Ratio(raw.FTM, raw.FTA)]

TeamWeekRecord(name, raw) ==
    [name |-> name,
     opponent_name |-> ScheduledOpponent(name),
     category_totals |-> category_totals(raw),
     attempts |-> [c \in RatioCats |-> IF c = "FG%" THEN raw.FGA ELSE raw.FTA]]

\* MatchupOutcomeEvaluator: one record against another, category by category.
WonCats(a, b) ==
    LET Won(c) == isBetter(c, OrZero(a.category_totals[c]), OrZero(b.category_totals[c]))
    IN SelectSeq(CATEGORIES, Won)

TiedCats(a, b) ==
    LET Tied(c) == NumEq(OrZero(a.category_totals[c]), OrZero(b.category_totals[c]))
    IN SelectSeq(CATEGORIES, Tied)

MatchupDetails(a, b) ==
    [won |-> Len(WonCats(a, b)),
     lost |-> Len(WonCats(b, a)),
     tied |-> Len(TiedCats(a, b)),
     won_cats |-> WonCats(a, b),
     lost_cats |-> WonCats(b, a)]

\* A flag raised by four categories already.
BeatenWithFour(details) == details.won >= 4

\* The "beaten" flag: at least 5 of the 9 categories won.
Beaten(details) == details.won >= 5

RecordsOf(raws) == [i \in DOMAIN raws |-> TeamWeekRecord(WeekTeamNames[i], raws[i])]

\* The Team object of /week/N for record i of recs.
TeamOf(recs, i) ==
    LET me == recs[i]
        others == {j \in DOMAIN recs : j # i}
        details == [o \in {recs[j].name : j \in others} |->
                      MatchupDetails(me, recs[CHOOSE j \in others : recs[j].name = o])]
        IsBeaten(n) == n # me.name /\ Beaten(details[n])
    IN [name |-> me.name,
        opponent_name |-> me.opponent_name,
        category_totals |-> me.category_totals,
        attempts |-> me.attempts,
        matchup_details |-> details,
        beaten_teams |-> SelectSeq([j \in DOMAIN recs |-> recs[j].name], IsBeaten),
        total_teams_beaten |-> Cardinality({o \in DOMAIN details : Beaten(details[o])})]

LeagueWeekSnapshot(raws) ==
    LET recs == RecordsOf(raws) IN [i \in DOMAIN recs |-> TeamOf(recs, i)]

\* ---- TeamVsLeague ----
\* weekData?.teams.find(t => t.name === selectedTeam): its index, 0 for undefined
FindTeam(teams, name) ==
    IF \E i \in DOMAIN teams : teams[i].name = name
    THEN CHOOSE i \in DOMAIN teams :
           teams[i].name = name /\ \A j \in DOMAIN teams : teams[j].name = name => i <= j
    ELSE 0

selectedTeamData == FindTeam(weekData, selectedTeam)

calculateTeamsBeatenByMargin(teams, i) ==
    IF i = 0 THEN 0
    ELSE Cardinality({o \in DOMAIN teams[i].matchup_details :
                        teams[i].matchup_details[o].won > teams[i].matchup_details[o].lost})

calculateTeamsBeaten(teams, i) ==
    IF i = 0 THEN 0
    ELSE Cardinality({o \in DOMAIN teams[i].matchup_details :
                        teams[i].matchup_details[o].won >= 5})

teamsBeaten == calculateTeamsBeaten(weekData, selectedTeamData)

\* OpponentDetailModal: one table row per category.
ModalRow(cat, teamName, opponentName, teamCategoryTotals, opponentCategoryTotals) ==
    LET my == OrZero(teamCategoryTotals[cat])
        opp == OrZero(opponentCategoryTotals[cat])
        better == isBetter(cat, my, opp)
        isTie == NumEq(my, opp)
    IN [category |-> cat,
        winner |-> IF isTie THEN "Tie" ELSE IF better THEN teamName ELSE opponentName,
        teamGreen |-> better /\ ~isTie,
        opponentGreen |-> ~better /\ ~isTie,
        teamCell |-> fmt(cat, my),
        opponentCell |-> fmt(cat, opp)]

ModalRows(teamName, opponentName, teamCategoryTotals, opponentCategoryTotals) ==
    [k \in DOMAIN CATEGORIES |->
        ModalRow(CATEGORIES[k], teamName, opponentName,
                 teamCategoryTotals, opponentCategoryTotals)]

\* The modal is rendered only for the selected team's scheduled opponent.
OpponentModalShown ==
    /\ showOpponentModal
    /\ selectedTeamData # 0
    /\ weekData[selectedTeamData].opponent_name # ""
    /\ weekData[selectedTeamData].opponent_name
         \in DOMAIN weekData[selectedTeamData].matchup_details

opponentModalRows ==
    IF OpponentModalShown
    THEN LET me == weekData[selectedTeamData]
             o == FindTeam(weekData, me.opponent_name)
         IN ModalRows(me.name, me.opponent_name, me.category_totals,
                      weekData[o].category_totals)
    ELSE <<>>

\* ---- LeagueOverview: category dominators of the current week ----
\* The forEach over the teams, after the first k of them.  bestValue starts
\* at Infinity (TO) or -Infinity; team = "" stands for that start value.
\* value is team.category_totals?.[cat] || 0.
RECURSIVE DominatorScan(_, _, _)
DominatorScan(cat, teams, k) ==
    IF k = 0 THEN [team |-> "", value |-> Num(0)]
    ELSE LET prev == DominatorScan(cat, teams, k - 1)
             value == OrZero(teams[k].category_totals[cat])
             takes == IF cat = "TO"
                      THEN Less(Num(0), value) /\ (prev.team = "" \/ Less(value, prev.value))
                      ELSE prev.team = "" \/ Less(prev.value, value)
         IN IF takes THEN [team |-> teams[k].name, value |-> value] ELSE prev

\* An entry whose team is "" is a category without an entry.
currentWeekCategoryDominators(teams) ==
    [cat \in Cats |-> DominatorScan(cat, teams, Len(teams))]

\* ---- LeagueRankings: percentiles ----
\* [...allValues].sort((a, b) => reverse ? b - a : a - b)
RECURSIVE InsertNumber(_, _, _)
InsertNumber(sorted, v, reverse) ==
    IF Len(sorted) = 0 THEN <<v>>
    ELSE IF (IF reverse THEN v > Head(sorted) ELSE v < Head(sorted))
    THEN <<v>> \o sorted
    ELSE <<Head(sorted)>> \o InsertNumber(Tail(sorted), v, reverse)

RECURSIVE SortNumbers(_, _)
SortNumbers(values, reverse) ==
    IF Len(values) = 0 THEN <<>>
    ELSE InsertNumber(SortNumbers(SubSeq(values, 1, Len(values) - 1), reverse),
                      values[Len(values)], reverse)

\* sorted.findIndex(v => (reverse ? v <= value : v >= value)), zero-based
findIndex(sorted, value, reverse) ==
    LET Hit(k) == IF reverse THEN sorted[k] <= value ELSE sorted[k] >= value
    IN IF \E k \in DOMAIN sorted : Hit(k)
       THEN (CHOOSE k \in DOMAIN sorted : Hit(k) /\ \A j \in 1 .. (k - 1) : ~Hit(j)) - 1
       ELSE -1

\* Math.round((1 - index / sorted.length) * 100)
calculatePercentile(value, allValues, reverse) ==
    LET sorted == SortNumbers(allValues, reverse)
        index == findIndex(sorted, value, reverse)
        n == Len(sorted)
    IN IF index = -1 THEN 100
       ELSE (2 * (n - index) * 100 + n) \div (2 * n)

allTeamsBeaten(teams) == [k \in DOMAIN teams |-> teams[k].total_teams_beaten]

teams_beaten_percentile(teams, i) ==
    calculatePercentile(teams[i].total_teams_beaten, allTeamsBeaten(teams), FALSE)

WIdle ==
    /\ raw_totals = <<>>
    /\ weekData = <<>>
    /\ selectedTeam = ""
    /\ showOpponentModal = FALSE
    /\ wpc = "build"

\* The upstream source supplies the next team's raw totals.
AddTeamTotals(raw) ==
    /\ wpc = "build"
    /\ Len(raw_totals) < Len(WeekTeamNames)
    /\ raw_totals' = Append(raw_totals, raw)
    /\ UNCHANGED <<weekData, selectedTeam, showOpponentModal, wpc, notWeek>>

\* The week is exported and served as /week/N.
BuildSnapshot ==
    /\ wpc = "build"
    /\ Len(raw_totals) = Len(WeekTeamNames)
    /\ weekData' = LeagueWeekSnapshot(raw_totals)
    /\ wpc' = "ready"
    /\ UNCHANGED <<raw_totals, selectedTeam, showOpponentModal, notWeek>>

\* The team selector's onChange.
SelectTeam(name) ==
    /\ wpc = "ready"
    /\ name # selectedTeam
    /\ selectedTeam' = name
    /\ UNCHANGED <<raw_totals, weekData, showOpponentModal, wpc, notWeek>>

\* Click on the "vs <opponent>" card.
OpenOpponentModal ==
    /\ wpc = "ready"
    /\ selectedTeamData # 0
    /\ weekData[selectedTeamData].opponent_name # ""
    /\ ~showOpponentModal
    /\ showOpponentModal' = TRUE
    /\ UNCHANGED <<raw_totals, weekData, selectedTeam, wpc, notWeek>>

CloseOpponentModal ==
    /\ wpc = "ready"
    /\ showOpponentModal
    /\ showOpponentModal' = FALSE
    /\ UNCHANGED <<raw_totals, weekData, selectedTeam, wpc, notWeek>>

WNext ==
    \/ \E raw \in RawTotals : AddTeamTotals(raw)
    \/ BuildSnapshot
    \/ \E i \in DOMAIN WeekTeamNames : SelectTeam(WeekTeamNames[i])
    \/ SelectTeam("")
    \/ OpenOpponentModal
    \/ CloseOpponentModal



(***************************************************************************)
(* Claims about the week's category comparison                             *)
(***************************************************************************)
InSeq(x, seq) == \E k \in DOMAIN seq : seq[k] = x

CountWinner(rows, w) == Cardinality({k \in DOMAIN rows : rows[k].winner = w})

NineCategories == {"PTS", "REB", "AST", "STL", "BLK", "FG%", "FT%", "3PM", "TO"}

\* Categories a wins against b, straight from the two records' totals.
CategoryWins(a, b) ==
    Cardinality({c \in NineCategories :
        LET my == OrZero(a.category_totals[c])
            opp == OrZero(b.category_totals[c])
        IN IF c = "TO" THEN Less(my, opp) ELSE Less(opp, my)})

\* C3: for every pair of distinct teams of the week, one side's category wins
\* plus the other side's category wins plus the ties is 9: each of the nine
\* categories is counted exactly once as won, lost or tied.
C3_CategoryCountsSumToNine ==
    wpc = "ready" =>
      \A i, j \in DOMAIN weekData : i # j =>
        LET a == weekData[i]
            b == weekData[j]
            ab == a.matchup_details[b.name]
            ba == b.matchup_details[a.name]
            rows == ModalRows(a.name, b.name, a.category_totals, b.category_totals)
        IN /\ ab.won + ba.won + ab.tied = 9
           /\ ab.won + ab.lost + ab.tied = 9
           /\ CountWinner(rows, a.name) + CountWinner(rows, b.name)
                + CountWinner(rows, "Tie") = 9
           /\ \A c \in NineCategories :
                Cardinality({k \in DOMAIN rows : rows[k].category = c}) = 1
           /\ \A c \in NineCategories : ~(InSeq(c, ab.won_cats) /\ InSeq(c, ab.lost_cats))

C3_Witness ==
    /\ wpc = "ready"
    /\ \E i, j \in DOMAIN weekData :
         /\ i # j
         /\ weekData[i].matchup_details[weekData[j].name].won >= 1
         /\ weekData[i].matchup_details[weekData[j].name].lost >= 1
         /\ weekData[i].matchup_details[weekData[j].name].tied >= 1

\* C4: category outcomes between two distinct teams are antisymmetric: A wins a
\* category against B exactly when B loses it against A, never both win, a tie
\* for one is a tie for the other; lower is better only for TO.
C4_CategoryOutcomesAntisymmetric ==
    wpc = "ready" =>
      \A i, j \in DOMAIN weekData : i # j =>
        \A k \in DOMAIN CATEGORIES :
          LET a == weekData[i]
              b == weekData[j]
              cat == CATEGORIES[k]
              my == OrZero(a.category_totals[cat])
              opp == OrZero(b.category_totals[cat])
              mine == ModalRow(cat, a.name, b.name, a.category_totals, b.category_totals)
              theirs == ModalRow(cat, b.name, a.name, b.category_totals, a.category_totals)
          IN /\ (mine.winner = a.name) <=> (theirs.winner = a.name)
             /\ ~(mine.winner = a.name /\ theirs.winner = b.name)
             /\ (mine.winner = "Tie") <=> (theirs.winner = "Tie")
             /\ mine.teamGreen <=> theirs.opponentGreen
             /\ ~(isBetter(cat, my, opp) /\ isBetter(cat, opp, my))
             /\ (mine.winner = a.name)
                  <=> (IF cat = "TO" THEN Less(my, opp) ELSE Less(opp, my))
             /\ InSeq(cat, a.matchup_details[b.name].won_cats)
                  <=> InSeq(cat, b.matchup_details[a.name].lost_cats)

C4_Witness ==
    /\ wpc = "ready"
    /\ OpponentModalShown
    /\ \E k, l, m \in DOMAIN opponentModalRows :
         /\ opponentModalRows[k].category = "TO"
         /\ opponentModalRows[k].winner = selectedTeam
         /\ opponentModalRows[l].category = "PTS"
         /\ opponentModalRows[l].winner = weekData[selectedTeamData].opponent_name
         /\ opponentModalRows[m].winner = "Tie"

\* C5: a team's "teams beaten" count is the number of other teams against
\* which it wins at least 5 categories; total_teams_beaten, the length of
\* beaten_teams and calculateTeamsBeaten all give that number.
C5_TeamsBeatenAgree ==
    wpc = "ready" =>
      \A i \in DOMAIN weekData :
        LET t == weekData[i]
            beats(j) == CategoryWins(t, weekData[j]) >= 5
            n == Cardinality({j \in DOMAIN weekData : j # i /\ beats(j)})
        IN /\ t.total_teams_beaten = n
           /\ Len(t.beaten_teams) = n
           /\ calculateTeamsBeaten(weekData, i) = n
           /\ (selectedTeamData = i => teamsBeaten = n)
           /\ \A j \in DOMAIN weekData :
                j # i => (InSeq(weekData[j].name, t.beaten_teams) <=> beats(j))

C5_Witness ==
    /\ wpc = "ready"
    /\ selectedTeamData # 0
    /\ teamsBeaten = 1
    /\ \E o \in DOMAIN weekData[selectedTeamData].matchup_details :
         /\ weekData[selectedTeamData].matchup_details[o].won < 5
         /\ weekData[selectedTeamData].matchup_details[o].won
              > weekData[selectedTeamData].matchup_details[o].lost

\* C28: for each category that has a dominator, no team of the week has a
\* better total than the dominator's: none lower for TO, none higher for every
\* other category.
C28_DominatorHasBestTotal ==
    wpc = "ready" =>
      \A cat \in NineCategories :
        LET d == currentWeekCategoryDominators(weekData)[cat]
        IN d.team # "" =>
             /\ \E i \in DOMAIN weekData :
                   weekData[i].name = d.team
                     /\ NumEq(OrZero(weekData[i].category_totals[cat]), d.value)
             /\ \A i \in DOMAIN weekData :
                   LET v == OrZero(weekData[i].category_totals[cat])
                   IN IF cat = "TO" THEN ~Less(v, d.value) ELSE ~Less(d.value, v)

\* C29: among the teams of a week, a team that beat more teams never has a
\* lower teams-beaten percentile than a team that beat fewer, and every
\* percentile is an integer from 0 to 100.
C29_PercentileIsMonotone ==
    wpc = "ready" =>
      \A i, j \in DOMAIN weekData :
        /\ teams_beaten_percentile(weekData, i) \in 0 .. 100
        /\ weekData[i].total_teams_beaten > weekData[j].total_teams_beaten
             => teams_beaten_percentile(weekData, i) >= teams_beaten_percentile(weekData, j)

\* b is listed in a's beaten_teams
ListsAsBeaten(a, b) == InSeq(b.name, a.beaten_teams)

\* C30: for every pair of distinct teams of the week, A beating B (at least 5
\* of the 9 categories won) and B beating A never both hold, in the beaten
\* flags, in beaten_teams and in the count TeamVsLeague makes; and neither is
\* flagged when neither side wins 5 categories.
C30_BeatenIsMutuallyExclusive ==
    wpc = "ready" =>
      \A i, j \in DOMAIN weekData : i # j =>
        LET a == weekData[i]
            b == weekData[j]
            ab == a.matchup_details[b.name]
            ba == b.matchup_details[a.name]
        IN /\ ~(Beaten(ab) /\ Beaten(ba))
           /\ ~(ListsAsBeaten(a, b) /\ ListsAsBeaten(b, a))
           /\ ListsAsBeaten(a, b) <=> CategoryWins(a, b) >= 5
           /\ (CategoryWins(a, b) < 5 /\ CategoryWins(b, a) < 5)
                => ~ListsAsBeaten(a, b) /\ ~ListsAsBeaten(b, a)
           /\ calculateTeamsBeaten(weekData, i) + calculateTeamsBeaten(weekData, j)
                <= 2 * (Len(weekData) - 1) - 1

\* One pair where one side wins 5 or more and is alone in listing the other,
\* and one pair split 4-4-1 where neither lists the other.
C30_Witness ==
    /\ wpc = "ready"
    /\ \E i, j \in DOMAIN weekData :
         /\ i # j
         /\ ListsAsBeaten(weekData[i], weekData[j])
         /\ ~ListsAsBeaten(weekData[j], weekData[i])
    /\ \E i, j \in DOMAIN weekData :
         /\ i # j
         /\ weekData[i].matchup_details[weekData[j].name].won = 4
         /\ weekData[i].matchup_details[weekData[j].name].lost = 4
         /\ ~ListsAsBeaten(weekData[i], weekData[j])
         /\ ~ListsAsBeaten(weekData[j], weekData[i])

(***************************************************************************)
(* Live projection of one matchup (project_team_stats and the predictions  *)
(* response) and what LivePredictions renders from it.                     *)
(***************************************************************************)
FallbackDays == 7
finalScoringPeriod == MaxPeriod + 1

\* the matchup's scoring periods, matchup_scoring_periods
RangeSeq(a, b) == [i \in 1 .. (b - a + 1) |-> a + i - 1]
ScoringPeriods == RangeSeq(1, MaxPeriod)

Min(a, b) == IF a < b THEN a ELSE b
Abs(n) == IF n < 0 THEN -n ELSE n

\* Accumulated box-score totals a team may have so far in the week.
BoxScores ==
    {[PTS |-> 0, REB |-> 0, AST |-> 0, STL |-> 0, BLK |-> 0, TPM |-> 0, TO |-> 0,
      FGM |-> 0, FGA |-> 0, FTM |-> 0, FTA |-> 0],
     [PTS |-> 3, REB |-> 2, AST |-> 1, STL |-> 1, BLK |-> 0, TPM |-> 1, TO |-> 2,
      FGM |-> 1, FGA |-> 2, FTM |-> 1, FTA |-> 2]}

\* Season per-game averages a player may have; `every`: the player has a game
\* in each scoring period divisible by it.
PlayerAverages ==
    {[PTS |-> 2, REB |-> 0, AST |-> 1, STL |-> 0, BLK |-> 0, TPM |-> 1, TO |-> 1,
      FGM |-> 3, FGA |-> 10, FTM |-> 1, FTA |-> 1, every |-> 1],
     [PTS |-> 0, REB |-> 1, AST |-> 0, STL |-> 1, BLK |-> 1, TPM |-> 0, TO |-> 0,
      FGM |-> 0, FGA |-> 0, FTM |-> 0, FTA |-> 0, every |-> 2]}

InjuryStatuses == {"ACTIVE", "DAY_TO_DAY", "OUT"}
Players == [injuryStatus : InjuryStatuses, avg : PlayerAverages]

ProjTeamNames == <<"Team A", "Team B">>

\* What a prediction request works on: the current scoring period, both teams'
\* box scores, and both rosters (two players at home, one away).
ProjectionInputs ==
    [current_scoring_period : 1 .. (MaxPeriod + 1),
     box : BoxScores \X BoxScores,
     rosters : {<<r1, r2>> : r1 \in Players \X Players, r2 \in {<<p>> : p \in Players}}]

NoInput == [current_scoring_period |-> 0, box |-> <<>>, rosters |-> <<>>]

\* remaining_periods = [sp for sp in scoring_periods if sp >= current_scoring_period]
ExplicitRemaining(inp) ==
    LET Later(sp) == sp >= inp.current_scoring_period
    IN SelectSeq(ScoringPeriods, Later)

\* ... and, when that is empty, current through min(current + 7, final).
RemainingPeriods(inp) ==
    IF ExplicitRemaining(inp) = <<>>
    THEN RangeSeq(inp.current_scoring_period,
                  Min(inp.current_scoring_period + FallbackDays, finalScoringPeriod))
    ELSE ExplicitRemaining(inp)

\* A raw stat by its category code.
StatOf(line, c) ==
    CASE c = "PTS" -> line.PTS
      [] c = "REB" -> line.REB
      [] c = "AST" -> line.AST
      [] c = "STL" -> line.STL
      [] c = "BLK" -> line.BLK
      [] c = "3PM" -> line.TPM
      [] c = "TO"  -> line.TO

\* The box score's own value of a category; a ratio with no attempts is absent.
BoxValue(box, c) ==
    IF c = "FG%" THEN Ratio(box.FGM, box.FGA)
    ELSE IF c = "FT%" THEN Ratio(box.FTM, box.FTA)
    ELSE Num(StatOf(box, c))

\* projected[cat] = float(value) if value else 0.0
CurrentStats(box) ==
    [c \in Cats |->
        LET value == BoxValue(box, c)
        IN IF IsUndefined(value) \/ value[1] = 0 THEN Num(0) ELSE value]

StartTotals(box) ==
    [projected |-> CurrentStats(box),
     fg_made |-> box.FGM, fg_attempted |-> box.FGA,
     ft_made |-> box.FTM, ft_attempted |-> box.FTA]

EligibleWhateverStatus(player) == TRUE

\* healthy or day-to-day; OUT players are left out
Eligible(player) == player.injuryStatus # "OUT"

GamesIn(player, remaining) ==
    Cardinality({k \in DOMAIN remaining : remaining[k] % player.avg.every = 0})

\* projected['PTS'] += pts_add ..., once per remaining game
AddAverages(acc, avg, games) ==
    [projected |-> [c \in Cats |->
                      IF c \in RatioCats THEN acc.projected[c]
                      ELSE Num(acc.projected[c][1] + games * StatOf(avg, c))],
     fg_made |-> acc.fg_made + games * avg.FGM,
     fg_attempted |-> acc.fg_attempted + games * avg.FGA,
     ft_made |-> acc.ft_made + games * avg.FTM,
     ft_attempted |-> acc.ft_attempted + games * avg.FTA]

AddPlayer(acc, player, remaining) ==
    IF Eligible(player) THEN AddAverages(acc, player.avg, GamesIn(player, remaining))
    ELSE acc

RECURSIVE AddRoster(_, _, _, _)
AddRoster(acc, roster, k, remaining) ==
    IF k > Len(roster) THEN acc
    ELSE AddRoster(AddPlayer(acc, roster[k], remaining), roster, k + 1, remaining)

\* the mean of two fractions
Mean(a, b) == <<a[1] * b[2] + b[1] * a[2], 2 * a[2] * b[2]>>

\* the added part's own percentage averaged with the box score's percentage
RecalcAsMeanOfPercentages(acc, box) ==
    LET Part(made, att, m0, a0) ==
            IF att - a0 > 0 /\ a0 > 0 THEN Mean(<<m0, a0>>, <<made - m0, att - a0>>)
            ELSE IF att > 0 THEN <<made, att>> ELSE Num(0)
    IN [acc EXCEPT
          !.projected["FG%"] = Part(acc.fg_made, acc.fg_attempted, box.FGM, box.FGA),
          !.projected["FT%"] = Part(acc.ft_made, acc.ft_attempted, box.FTM, box.FTA)]

\* if fg_attempted > 0: projected['FG%'] = fg_made / fg_attempted (same for FT%)
RecalcPercentages(acc, box) ==
    [acc EXCEPT
       !.projected["FG%"] = IF acc.fg_attempted > 0
                              THEN <<acc.fg_made, acc.fg_attempted>> ELSE @,
       !.projected["FT%"] = IF acc.ft_attempted > 0
                              THEN <<acc.ft_made, acc.ft_attempted>> ELSE @]

ProjectTeamStats(inp, t) ==
    RecalcPercentages(
        AddRoster(StartTotals(inp.box[t]), inp.rosters[t], 1, RemainingPeriods(inp)),
        inp.box[t])

NoTotals == [projected |-> <<>>, fg_made |-> 0, fg_attempted |-> 0,
             ft_made |-> 0, ft_attempted |-> 0]

\* ---- the prediction object ----
ConfidenceFloor == 50
ConfidenceStep == 5
ConfidenceCeiling == 95

\* falls as the spread widens
ConfidenceFallingWithSpread(spread, nRemaining) ==
    IF nRemaining = 0 THEN ConfidenceFloor
    ELSE ConfidenceCeiling - Min(ConfidenceCeiling - ConfidenceFloor, ConfidenceStep * spread)

\* grows with the spread of the category-win counts, within [floor, ceiling];
\* the floor when no period remains
Confidence(spread, nRemaining) ==
    IF nRemaining = 0 THEN ConfidenceFloor
    ELSE Min(ConfidenceCeiling, ConfidenceFloor + ConfidenceStep * spread)

CategoryWinner(cat, v1, v2) ==
    IF isBetter(cat, v1, v2) THEN ProjTeamNames[1]
    ELSE IF isBetter(cat, v2, v1) THEN ProjTeamNames[2]
    ELSE "Tie"

\* str(n): the decimal digits of a non-negative integer
Digit(d) == <<"0", "1", "2", "3", "4", "5", "6", "7", "8", "9">>[d + 1]
RECURSIVE str(_)
str(n) == IF n < 10 THEN <<Digit(n)>> ELSE Append(str(n \div 10), Digit(n % 10))

BuildPrediction(inp, tot) ==
    LET cats == [k \in DOMAIN CATEGORIES |->
                   LET c == CATEGORIES[k]
                   IN [category |-> c,
                       team1_value |-> CurrentStats(inp.box[1])[c],
                       team2_value |-> CurrentStats(inp.box[2])[c],
                       team1_projected |-> tot[1].projected[c],
                       team2_projected |-> tot[2].projected[c],
                       winner |-> CategoryWinner(c, tot[1].projected[c],
                                                 tot[2].projected[c])]]
        wins(name) == Cardinality({k \in DOMAIN cats : cats[k].winner = name})
        team1_wins == wins(ProjTeamNames[1])
        team2_wins == wins(ProjTeamNames[2])
    IN [team1 |-> ProjTeamNames[1],
        team2 |-> ProjTeamNames[2],
        categories |-> cats,
        projected_score |-> str(team1_wins) \o <<"-">> \o str(team2_wins),
        confidence |-> Confidence(Abs(team1_wins - team2_wins),
                                  Len(RemainingPeriods(inp)))]

Predict(inp) == BuildPrediction(inp, <<ProjectTeamStats(inp, 1), ProjectTeamStats(inp, 2)>>)

NoPred == [team1 |-> "", team2 |-> "", categories |-> <<>>,
           projected_score |-> <<>>, confidence |-> 0]

\* ---- LivePredictions ----
\* String.prototype.split on a one-character separator
RECURSIVE split(_, _)
split(s, sep) ==
    IF \E i \in DOMAIN s : s[i] = sep
    THEN LET i == CHOOSE i \in DOMAIN s : s[i] = sep /\ \A j \in 1 .. (i - 1) : s[j] # sep
         IN <<SubSeq(s, 1, i - 1)>> \o split(SubSeq(s, i + 1, Len(s)), sep)
    ELSE <<s>>

NaN == -1
IsDigit(ch) == \E d \in 0 .. 9 : Digit(d) = ch
DigitValue(ch) == CHOOSE d \in 0 .. 9 : Digit(d) = ch

\* parseInt: the value of the leading digits, NaN when there are none
RECURSIVE ParseDigits(_, _, _)
ParseDigits(s, k, acc) ==
    IF k > Len(s) \/ ~IsDigit(s[k]) THEN acc
    ELSE ParseDigits(s, k + 1, 10 * acc + DigitValue(s[k]))

parseInt(s) == IF Len(s) = 0 \/ ~IsDigit(s[1]) THEN NaN ELSE ParseDigits(s, 1, 0)

\* a > b on numbers that may be NaN
Gt(a, b) == a # NaN /\ b # NaN /\ a > b

scoreParts == split(pred.projected_score, "-")
team1Wins == parseInt(scoreParts[1])

team2WinsFromFirstPart == parseInt(scoreParts[1])

team2Wins == IF Len(scoreParts) >= 2 THEN parseInt(scoreParts[2]) ELSE NaN

\* the overall winner the component shows
winner ==
    IF Gt(team1Wins, team2Wins) THEN pred.team1
    ELSE IF Gt(team2Wins, team1Wins) THEN pred.team2
    ELSE "Tie"

\* LivePredictions.formatCategoryValue
formatCategoryValue(category, value) ==
    IF category \in RatioCats
    THEN [text |-> "percent", tenths |-> toFixed(<<value[1] * 100, value[2]>>, 1)]
    ELSE [text |-> "number", tenths |-> toFixed(value, 1)]

\* the two projected values each category card shows
shownCells ==
    [k \in DOMAIN pred.categories |->
        <<formatCategoryValue(pred.categories[k].category, pred.categories[k].team1_projected),
          formatCategoryValue(pred.categories[k].category, pred.categories[k].team2_projected)>>]

PIdle ==
    /\ pin = NoInput
    /\ totals = <<NoTotals, NoTotals>>
    /\ pred = NoPred
    /\ ppc = "idle"

PStart ==
    /\ pin \in ProjectionInputs
    /\ totals = <<NoTotals, NoTotals>>
    /\ pred = NoPred
    /\ ppc = "team1"

\* project_team_stats for the home team, then for the away team
ProjectTeam(t) ==
    /\ ppc = (IF t = 1 THEN "team1" ELSE "team2")
    /\ totals' = [totals EXCEPT ![t] = ProjectTeamStats(pin, t)]
    /\ ppc' = (IF t = 1 THEN "team2" ELSE "projected")
    /\ UNCHANGED <<pin, pred, notProjection>>

\* the endpoint assembles the prediction: winners, score, confidence
RespondPrediction ==
    /\ ppc = "projected"
    /\ pred' = BuildPrediction(pin, totals)
    /\ ppc' = "responded"
    /\ UNCHANGED <<pin, totals, notProjection>>

\* the response arrives and LivePredictions renders it
RenderPrediction ==
    /\ ppc = "responded"
    /\ ppc' = "shown"
    /\ UNCHANGED <<pin, totals, pred, notProjection>>

PNext ==
    \/ ProjectTeam(1)
    \/ ProjectTeam(2)
    \/ RespondPrediction
    \/ RenderPrediction

(***************************************************************************)
(* Properties of the live projection.                                      *)
(***************************************************************************)
RECURSIVE SumSeq(_)
SumSeq(s) == IF s = <<>> THEN 0 ELSE Head(s) + SumSeq(Tail(s))

Projected == ppc \in {"responded", "shown"}
Healthy(player) == player.injuryStatus \in {"ACTIVE", "DAY_TO_DAY"}

\* what the healthy and day-to-day players of team t add to a raw stat
Contributed(inp, t, F(_)) ==
    SumSeq([k \in DOMAIN inp.rosters[t] |->
              IF Healthy(inp.rosters[t][k])
              THEN GamesIn(inp.rosters[t][k], RemainingPeriods(inp)) * F(inp.rosters[t][k].avg)
              ELSE 0])

FGMof(line) == line.FGM
FGAof(line) == line.FGA
FTMof(line) == line.FTM
FTAof(line) == line.FTA

MadeTotal(t, c) ==
    IF c = "FG%" THEN pin.box[t].FGM + Contributed(pin, t, FGMof)
    ELSE pin.box[t].FTM + Contributed(pin, t, FTMof)
AttemptedTotal(t, c) ==
    IF c = "FG%" THEN pin.box[t].FGA + Contributed(pin, t, FGAof)
    ELSE pin.box[t].FTA + Contributed(pin, t, FTAof)

CategoryIndex(c) == CHOOSE k \in DOMAIN CATEGORIES : CATEGORIES[k] = c
ProjectedValue(t, c) ==
    IF t = 1 THEN pred.categories[CategoryIndex(c)].team1_projected
    ELSE pred.categories[CategoryIndex(c)].team2_projected

OneOfTwoPlusThreeOfTen(t) ==
    /\ pin.box[t].FGM = 1 /\ pin.box[t].FGA = 2
    /\ Contributed(pin, t, FGMof) = 3 /\ Contributed(pin, t, FGAof) = 10

\* C6: once a matchup is projected, each team's FG% and FT% with a positive
\* attempted total equal (accumulated made + projected made) divided by
\* (accumulated attempted + projected attempted), in the engine's totals and
\* in the prediction; aggregating 1/2 and 3/10 gives 4/12 and not the mean of
\* the two percentages.
C6_RatioIsSumMadeOverSumAttempted ==
    Projected =>
        \A t \in 1 .. 2 :
            /\ \A c \in RatioCats :
                  AttemptedTotal(t, c) > 0 =>
                      /\ NumEq(totals[t].projected[c], <<MadeTotal(t, c), AttemptedTotal(t, c)>>)
                      /\ NumEq(ProjectedValue(t, c), <<MadeTotal(t, c), AttemptedTotal(t, c)>>)
            /\ OneOfTwoPlusThreeOfTen(t) =>
                  /\ NumEq(ProjectedValue(t, "FG%"), <<4, 12>>)
                  /\ ~NumEq(ProjectedValue(t, "FG%"), Mean(<<1, 2>>, <<3, 10>>))

C6_Witness ==
    /\ ppc = "shown"
    /\ OneOfTwoPlusThreeOfTen(1)
    /\ totals[1].fg_made = 4 /\ totals[1].fg_attempted = 12
    /\ ProjectedValue(1, "FG%") = <<4, 12>>

\* C7: when no scoring period of the week is at or after the current one, the
\* projected totals of both teams are the accumulated totals and the
\* confidence is the floor.
C7_NoRemainingPeriodsKeepsCurrentTotals ==
    (Projected /\ ExplicitRemaining(pin) = <<>>) =>
        /\ \A t \in 1 .. 2 : totals[t].projected = CurrentStats(pin.box[t])
        /\ \A t \in 1 .. 2 : \A c \in Cats :
              NumEq(ProjectedValue(t, c), CurrentStats(pin.box[t])[c])
        /\ pred.confidence = ConfidenceFloor

\* C8: a projected FG% or FT% with no attempts is shown as "no data", not as
\* a percentage.
C8_ZeroAttemptRatioShownAsNoData ==
    ppc = "shown" =>
        \A t \in 1 .. 2 : \A c \in RatioCats :
            AttemptedTotal(t, c) = 0 => shownCells[CategoryIndex(c)][t].text = "no data"

\* inputs that differ from inp only in the season averages of OUT players
OutVariants(inp) ==
    {alt \in ProjectionInputs :
        /\ alt.current_scoring_period = inp.current_scoring_period
        /\ alt.box = inp.box
        /\ \A t \in 1 .. 2 : \A k \in DOMAIN inp.rosters[t] :
              /\ alt.rosters[t][k].injuryStatus = inp.rosters[t][k].injuryStatus
              /\ inp.rosters[t][k].injuryStatus # "OUT" =>
                    alt.rosters[t][k].avg = inp.rosters[t][k].avg}

\* C9: the projection of any input differing only in OUT players' season
\* averages has the same totals, category winners, score and confidence; each
\* counting category is the accumulated total plus the healthy and day-to-day
\* players' averages once per remaining game.
C9_OutPlayersContributeNothing ==
    Projected =>
        /\ \A alt \in OutVariants(pin) :
              /\ Predict(alt) = pred
              /\ \A t \in 1 .. 2 : ProjectTeamStats(alt, t) = totals[t]
        /\ \A t \in 1 .. 2 : \A c \in Cats \ RatioCats :
              LET F(line) == StatOf(line, c)
              IN totals[t].projected[c] = Num(StatOf(pin.box[t], c) + Contributed(pin, t, F))

C9_Witness ==
    /\ ppc = "shown"
    /\ \E k \in DOMAIN pin.rosters[1] :
          /\ pin.rosters[1][k].injuryStatus = "OUT"
          /\ pin.rosters[1][k].avg.FGA = 10
          /\ GamesIn(pin.rosters[1][k], RemainingPeriods(pin)) > 0
    /\ \E k \in DOMAIN pin.rosters[1] : pin.rosters[1][k].injuryStatus = "DAY_TO_DAY"
    /\ \E alt \in OutVariants(pin) : alt # pin /\ Predict(alt) = pred

WinnerCount(name) ==
    Cardinality({k \in DOMAIN pred.categories : pred.categories[k].winner = name})

\* C10: the two numbers of the projected score are the counts of categories
\* whose winner is team1 and team2, they and the ties add up to nine, and the
\* winner the component shows is the team with more categories, or Tie.
C10_ScoreCountsCategoryWinners ==
    Projected =>
        LET a == WinnerCount(pred.team1)
            b == WinnerCount(pred.team2)
        IN /\ team1Wins = a
           /\ team2Wins = b
           /\ a + b + WinnerCount("Tie") = 9
           /\ Len(pred.categories) = 9
           /\ winner = (IF a > b THEN pred.team1 ELSE IF b > a THEN pred.team2 ELSE "Tie")

C10_Witness ==
    /\ ppc = "shown"
    /\ WinnerCount("Tie") > 0
    /\ WinnerCount(pred.team2) > WinnerCount(pred.team1)
    /\ WinnerCount(pred.team1) > 0
    /\ winner = pred.team2

\* the spread of a prediction: |categories won by team1 - won by team2|
SpreadOf(p) ==
    Abs(Cardinality({k \in DOMAIN p.categories : p.categories[k].winner = p.team1})
        - Cardinality({k \in DOMAIN p.categories : p.categories[k].winner = p.team2}))

\* spread and confidence of the projection of every input
SpreadAndConfidence ==
    {<<SpreadOf(Predict(inp)), Predict(inp).confidence>> : inp \in ProjectionInputs}

MinWeeksForImprovement == 8
ImprovementWindow == 4
MinMatchups == 2
BestRate == 80
WorstRate == 20

StatTeams == <<"Team A", "Team B">>
StatIds == DOMAIN StatTeams

\* What one week of the league left for the two teams followed: how many of
\* the other teams each beat, whether the two were scheduled against each
\* other, and whether each won 5 or more categories against its scheduled
\* opponent.
WeekOutcomes ==
    {[beaten |-> <<2, 3>>, met |-> FALSE, won |-> <<FALSE, TRUE>>],
     [beaten |-> <<4, 1>>, met |-> TRUE,  won |-> <<TRUE, FALSE>>],
     [beaten |-> <<3, 3>>, met |-> TRUE,  won |-> <<FALSE, TRUE>>]}

\* the weeks counted even though the last one is still being played
AllWeeks(s) == s

\* the last week of the season is the one in progress
CompletedWeeks(s) == SubSeq(s, 1, Len(s) - 1)

BeatenCounts(s, t) == [w \in DOMAIN s |-> s[w].beaten[t]]
MeanOf(counts) == <<SumSeq(counts), Len(counts)>>

\* ---- streaks ----
\* length of the run of wins ending at week n
RECURSIVE RunEndingAt(_, _, _)
RunEndingAt(s, t, n) ==
    IF n = 0 \/ ~s[n].won[t] THEN 0 ELSE 1 + RunEndingAt(s, t, n - 1)

RECURSIVE LongestRun(_, _, _)
LongestRun(s, t, n) ==
    IF n = 0 THEN 0
    ELSE LET rest == LongestRun(s, t, n - 1)
             here == RunEndingAt(s, t, n)
         IN IF here > rest THEN here ELSE rest

current_streak(s, t) == RunEndingAt(CompletedWeeks(s), t, Len(CompletedWeeks(s)))
longest_streak(s, t) == LongestRun(CompletedWeeks(s), t, Len(CompletedWeeks(s)))

\* ---- consistency ----
Square(x) == x * x

\* the sample variance: squared deviations over n - 1
SampleVariance(counts) ==
    LET n == Len(counts)
    IN IF n < 2 THEN Num(0)
       ELSE <<n * SumSeq([k \in DOMAIN counts |-> Square(counts[k])]) - Square(SumSeq(counts)),
              n * (n - 1)>>

\* the population variance: mean of the squared deviations from the mean
Variance(counts) ==
    LET n == Len(counts)
    IN IF n = 0 THEN Num(0)
       ELSE <<SumSeq([k \in DOMAIN counts |-> Square(n * counts[k] - SumSeq(counts))]),
              n * n * n>>

\* ---- most improved ----
EnoughWeeksAlways(s) == TRUE
EnoughWeeks(s) == Len(s) >= MinWeeksForImprovement

EarlyWindow(n) == 1 .. ImprovementWindow
RecentWindow(n) == (n - ImprovementWindow + 1) .. n

WindowMean(s, t, window) ==
    LET ws == {w \in window : w \in DOMAIN s}
        idx == CHOOSE f \in [1 .. Cardinality(ws) -> ws] :
                   \A i, j \in 1 .. Cardinality(ws) : i < j => f[i] < f[j]
    IN MeanOf([i \in 1 .. Cardinality(ws) |-> s[idx[i]].beaten[t]])

Minus(a, b) == <<a[1] * b[2] - b[1] * a[2], a[2] * b[2]>>

ImprovementEntry(s, t) ==
    LET early == WindowMean(s, t, EarlyWindow(Len(s)))
        recent == WindowMean(s, t, RecentWindow(Len(s)))
    IN [name |-> StatTeams[t], improvement |-> Minus(recent, early),
        early_avg |-> early, recent_avg |-> recent]

ReportedWhateverSign(e) == TRUE
\* only positive results are reported
Reported(e) == Less(Num(0), e.improvement)

RECURSIVE RankedDescending(_)
RankedDescending(entries) ==
    IF entries = {} THEN <<>>
    ELSE LET top == CHOOSE e \in entries :
                       \A o \in entries : ~Less(e.improvement, o.improvement)
         IN <<top>> \o RankedDescending(entries \ {top})

improved_teams(s) ==
    LET done == CompletedWeeks(s)
    IN IF ~EnoughWeeks(done) THEN <<>>
       ELSE RankedDescending({e \in {ImprovementEntry(done, t) : t \in StatIds} : Reported(e)})

Null == [name |-> ""]
most_improved(s) == IF improved_teams(s) = <<>> THEN Null ELSE improved_teams(s)[1]

\* ---- head to head ----
H2HWeeks(s) == {w \in DOMAIN s : s[w].met}
H2HTotal(s, t) == Cardinality(H2HWeeks(s))
H2HWins(s, t) == Cardinality({w \in H2HWeeks(s) : s[w].won[t]})

EnoughMatchupsAlways(total) == total >= 1
EnoughMatchups(total) == total >= MinMatchups

Other(t) == IF t = 1 THEN 2 ELSE 1

\* the win rate of every ordered pair with enough matchups, in percent
H2HRates(s) ==
    LET done == CompletedWeeks(s)
        pairs == SelectSeq([t \in StatIds |-> t],
                           LAMBDA t : EnoughMatchups(H2HTotal(done, t)))
    IN [k \in DOMAIN pairs |->
          [team |-> StatTeams[pairs[k]], opponent |-> StatTeams[Other(pairs[k])],
           wins |-> H2HWins(done, pairs[k]), total |-> H2HTotal(done, pairs[k]),
           win_rate |-> <<100 * H2HWins(done, pairs[k]), H2HTotal(done, pairs[k])>>]]

best_matchups(s) == SelectSeq(H2HRates(s), LAMBDA e : ~Less(e.win_rate, Num(BestRate)))
worst_matchups(s) == SelectSeq(H2HRates(s), LAMBDA e : ~Less(Num(WorstRate), e.win_rate))

\* ---- the /league/stats response ----
LeagueStats(s) ==
    [streaks_trends |->
        [current_streak_leaders |->
            [t \in StatIds |-> [name |-> StatTeams[t], streak |-> current_streak(s, t)]],
         longest_streak_leaders |->
            [t \in StatIds |-> [name |-> StatTeams[t], streak |-> longest_streak(s, t)]]],
     head_to_head |->
        [best_matchups |-> best_matchups(s),
         worst_matchups |-> worst_matchups(s),
         most_consistent_weekly |->
            [t \in StatIds |->
                [name |-> StatTeams[t],
                 variance |-> Variance(BeatenCounts(CompletedWeeks(s), t)),
                 avg |-> MeanOf(BeatenCounts(CompletedWeeks(s), t))]]],
     weekly_performance |->
        [most_improved |-> most_improved(s),
         improved_teams |-> improved_teams(s)]]

NoStats == [streaks_trends |-> <<>>]

\* ---- LeagueOverview / ImprovementComparisonModal ----
\* improvedTeams = stats?.weekly_performance?.improved_teams ?? []
improvedTeams == IF stats = NoStats THEN <<>> ELSE stats.weekly_performance.improved_teams

\* the Most Improved card is there only for a non-null most_improved
MostImprovedCardShown == stats # NoStats /\ stats.weekly_performance.most_improved # Null

\* a row of the comparison table: rank, name, the two averages, the improvement
ImprovementRow(k) ==
    [rank |-> k,
     name |-> improvedTeams[k].name,
     early_avg |-> toFixed(improvedTeams[k].early_avg, 2),
     recent_avg |-> toFixed(improvedTeams[k].recent_avg, 2),
     sign |-> IF Less(Num(0), improvedTeams[k].improvement) THEN "+" ELSE "",
     improvement |-> toFixed(improvedTeams[k].improvement, 2)]

improvementRows ==
    IF showImprovementModal THEN [k \in DOMAIN improvedTeams |-> ImprovementRow(k)] ELSE <<>>

\* Array.prototype.sort((a, b) => a.variance - b.variance), stable
RECURSIVE InsertByVariance(_, _)
InsertByVariance(sorted, e) ==
    IF sorted = <<>> THEN <<e>>
    ELSE IF Less(e.variance, Head(sorted).variance) THEN <<e>> \o sorted
    ELSE <<Head(sorted)>> \o InsertByVariance(Tail(sorted), e)

RECURSIVE SortByVariance(_, _)
SortByVariance(list, k) ==
    IF k = 0 THEN <<>> ELSE InsertByVariance(SortByVariance(list, k - 1), list[k])

mostConsistentShown ==
    IF stats = NoStats THEN <<>>
    ELSE SortByVariance(stats.head_to_head.most_consistent_weekly,
                        Len(stats.head_to_head.most_consistent_weekly))

SIdle ==
    /\ season = <<>>
    /\ stats = NoStats
    /\ showImprovementModal = FALSE

SStart ==
    /\ season \in {<<o>> : o \in WeekOutcomes}
    /\ stats = NoStats
    /\ showImprovementModal = FALSE

\* the week in progress concludes as it stands and the next one begins
StartWeek(o) ==
    /\ Len(season) < MaxWeeks
    /\ season' = Append(season, o)
    /\ stats' = NoStats
    /\ showImprovementModal' = FALSE
    /\ UNCHANGED notStats

\* live data replaces the snapshot of the week in progress
RefreshLiveWeek(o) ==
    /\ o # season[Len(season)]
    /\ season' = [season EXCEPT ![Len(season)] = o]
    /\ stats' = NoStats
    /\ showImprovementModal' = FALSE
    /\ UNCHANGED notStats

\* LeagueOverview fetches /league/stats
GetLeagueStats ==
    /\ stats = NoStats
    /\ stats' = LeagueStats(season)
    /\ UNCHANGED <<season, showImprovementModal, notStats>>

OpenImprovementModal ==
    /\ MostImprovedCardShown
    /\ ~showImprovementModal
    /\ showImprovementModal' = TRUE
    /\ UNCHANGED <<season, stats, notStats>>

CloseImprovementModal ==
    /\ showImprovementModal
    /\ showImprovementModal' = FALSE
    /\ UNCHANGED <<season, stats, notStats>>

SNext ==
    \/ \E o \in WeekOutcomes : StartWeek(o)
    \/ \E o \in WeekOutcomes : RefreshLiveWeek(o)
    \/ GetLeagueStats
    \/ OpenImprovementModal
    \/ CloseImprovementModal

(***************************************************************************)
(* Properties of the league statistics.                                    *)
(***************************************************************************)
StatsShown == stats # NoStats
\* every week but the last, which is still in progress
Done == [w \in 1 .. (Len(season) - 1) |-> season[w]]

\* sum of a team's teams-beaten counts over a set of weeks
RECURSIVE BeatenOver(_, _)
BeatenOver(t, ws) ==
    IF ws = {} THEN 0
    ELSE LET w == CHOOSE w \in ws : TRUE
         IN Done[w].beaten[t] + BeatenOver(t, ws \ {w})

FirstFour == 1 .. 4
LastFour == (Len(Done) - 3) .. Len(Done)
\* four times the improvement of team t
Gain(t) == BeatenOver(t, LastFour) - BeatenOver(t, FirstFour)

InList(list, e) == \E k \in DOMAIN list : list[k] = e
EntryOf(list, t) == CHOOSE e \in {list[k] : k \in DOMAIN list} : e.name = StatTeams[t]
Listed(list, t) == \E k \in DOMAIN list : list[k].name = StatTeams[t]

\* C12: with fewer than 8 completed weeks nothing is reported as most
\* improved; with 8 or more, a listed team's improvement is the mean teams
\* beaten of its last 4 completed weeks minus that of its first 4, the two
\* windows share no week, and with exactly 8 weeks, early mean 2.0 and recent
\* mean 3.5 the improvement is 1.5.
C12_ImprovementNeedsEightWeeks ==
    StatsShown =>
        /\ Len(Done) < 8 =>
              /\ stats.weekly_performance.improved_teams = <<>>
              /\ stats.weekly_performance.most_improved = Null
              /\ improvedTeams = <<>>
              /\ ~MostImprovedCardShown
        /\ Len(Done) >= 8 =>
              /\ FirstFour \cap LastFour = {}
              /\ EarlyWindow(Len(Done)) = FirstFour /\ RecentWindow(Len(Done)) = LastFour
              /\ \A t \in StatIds :
                    Listed(improvedTeams, t) =>
                        /\ NumEq(EntryOf(improvedTeams, t).early_avg, <<BeatenOver(t, FirstFour), 4>>)
                        /\ NumEq(EntryOf(improvedTeams, t).recent_avg, <<BeatenOver(t, LastFour), 4>>)
                        /\ NumEq(EntryOf(improvedTeams, t).improvement, <<Gain(t), 4>>)
              /\ \A t \in StatIds :
                    (Len(Done) = 8 /\ BeatenOver(t, FirstFour) = 8 /\ BeatenOver(t, LastFour) = 14) =>
                        /\ Listed(improvedTeams, t)
                        /\ NumEq(EntryOf(improvedTeams, t).improvement, <<3, 2>>)

C12_Witness ==
    /\ StatsShown
    /\ showImprovementModal
    /\ Len(Done) = 8
    /\ BeatenOver(1, FirstFour) = 8 /\ BeatenOver(1, LastFour) = 14
    /\ Listed(improvedTeams, 1)
    /\ improvementRows[1].name = "Team A" /\ improvementRows[1].improvement = 150

WinRun(t, from, to) == \A w \in from .. to : Done[w].won[t]
StreakOf(list, t) == EntryOf(list, t).streak

\* C14: a team's current streak is the length of the longest run of scheduled
\* wins that ends at the last completed week, the week in progress never
\* counted; its longest streak is the length of the longest such run anywhere
\* in the completed weeks; a completed week that is not a win ends the run.
C14_StreaksAreRunsOfScheduledWins ==
    StatsShown =>
        \A t \in StatIds :
            LET n == Len(Done)
                cur == StreakOf(stats.streaks_trends.current_streak_leaders, t)
                lng == StreakOf(stats.streaks_trends.longest_streak_leaders, t)
            IN /\ cur \in 0 .. n
               /\ WinRun(t, n - cur + 1, n)
               /\ cur < n => ~Done[n - cur].won[t]
               /\ (n > 0 /\ ~Done[n].won[t]) => cur = 0
               /\ lng \in cur .. n
               /\ \E from \in 1 .. (n + 1) : WinRun(t, from, from + lng - 1) /\ from + lng - 1 <= n
               /\ \A from \in 1 .. n : \A to \in from .. n :
                     WinRun(t, from, to) => to - from + 1 <= lng

C14_Witness ==
    /\ StatsShown
    /\ Len(season) >= 6
    /\ season[Len(season)].won[1]
    /\ StreakOf(stats.streaks_trends.current_streak_leaders, 1) = 2
    /\ StreakOf(stats.streaks_trends.longest_streak_leaders, 1) = 3
    /\ StreakOf(stats.streaks_trends.current_streak_leaders, 2) = 0

MetWeeks == {w \in DOMAIN Done : Done[w].met}
WinsAgainst(t) == Cardinality({w \in MetWeeks : Done[w].won[t]})
ListedTeam(list, t) == \E k \in DOMAIN list : list[k].team = StatTeams[t]

\* C15: every best matchup is an ordered pair with at least 2 matchups and a
\* win rate of 80% or more, every worst matchup one with at least 2 matchups
\* and 20% or less; wins and total are the pair's counts over the completed
\* weeks; and every ordered pair with at least 2 matchups that reaches a
\* threshold is in the corresponding list.
C15_HeadToHeadNeedsTwoMatchups ==
    StatsShown =>
        LET best == stats.head_to_head.best_matchups
            worst == stats.head_to_head.worst_matchups
            total == Cardinality(MetWeeks)
        IN /\ \A k \in DOMAIN best :
                 /\ best[k].total >= 2
                 /\ 100 * best[k].wins >= 80 * best[k].total
                 /\ NumEq(best[k].win_rate, <<100 * best[k].wins, best[k].total>>)
           /\ \A k \in DOMAIN worst :
                 /\ worst[k].total >= 2
                 /\ 100 * worst[k].wins <= 20 * worst[k].total
                 /\ NumEq(worst[k].win_rate, <<100 * worst[k].wins, worst[k].total>>)
           /\ \A t \in StatIds :
                 /\ \A k \in DOMAIN best :
                       best[k].team = StatTeams[t] =>
                           best[k].total = total /\ best[k].wins = WinsAgainst(t)
                 /\ \A k \in DOMAIN worst :
                       worst[k].team = StatTeams[t] =>
                           worst[k].total = total /\ worst[k].wins = WinsAgainst(t)
                 /\ ListedTeam(best, t) <=> (total >= 2 /\ 100 * WinsAgainst(t) >= 80 * total)
                 /\ ListedTeam(worst, t) <=> (total >= 2 /\ 100 * WinsAgainst(t) <= 20 * total)

C15_Witness ==
    /\ StatsShown
    /\ Cardinality(MetWeeks) = 5
    /\ \E k \in DOMAIN stats.head_to_head.best_matchups :
          /\ stats.head_to_head.best_matchups[k].team = "Team A"
          /\ stats.head_to_head.best_matchups[k].wins = 4
    /\ \E k \in DOMAIN stats.head_to_head.worst_matchups :
          /\ stats.head_to_head.worst_matchups[k].team = "Team B"
          /\ stats.head_to_head.worst_matchups[k].wins = 1

CountsOf(t) == [w \in DOMAIN Done |-> Done[w].beaten[t]]
ConsistencyOf(t) == EntryOf(stats.head_to_head.most_consistent_weekly, t)

\* C16: a team's consistency variance is the population variance of its
\* teams-beaten counts over the completed weeks (mean of the squares minus
\* the square of the mean); it is never negative, it is 0 when all the counts
\* are the same, and the list is shown from the lowest variance up.
C16_VarianceIsPopulationVariance ==
    StatsShown =>
        /\ \A t \in StatIds :
              LET n == Len(Done)
                  sum == BeatenOver(t, DOMAIN Done)
                  squares == SumSeq([w \in DOMAIN Done |-> CountsOf(t)[w] * CountsOf(t)[w]])
                  var == ConsistencyOf(t).variance
              IN n > 0 =>
                    /\ NumEq(var, <<n * squares - sum * sum, n * n>>)
                    /\ NumEq(ConsistencyOf(t).avg, <<sum, n>>)
                    /\ ~Less(var, Num(0))
                    /\ (\A v, w \in DOMAIN Done : CountsOf(t)[v] = CountsOf(t)[w]) => var[1] = 0
        /\ \A k, j \in DOMAIN mostConsistentShown :
              k < j => ~Less(mostConsistentShown[j].variance, mostConsistentShown[k].variance)

C16_Witness ==
    /\ StatsShown
    /\ Len(Done) >= 3
    /\ \A v, w \in DOMAIN Done : CountsOf(2)[v] = CountsOf(2)[w]
    /\ ConsistencyOf(2).variance[1] = 0
    /\ Less(Num(0), ConsistencyOf(1).variance)
    /\ mostConsistentShown[1].name = "Team B"

(***************************************************************************)
(* TeamVsLeague: loading the weeks of the season into allWeeksData, the    *)
(* current week live through SWR, the other weeks from the exported files. *)
(***************************************************************************)
LoadWeekIds == 1 .. LoadWeeks
\* the league's current_matchup_period: the last week there is
CurrentMatchupPeriod == LoadWeeks
LoadTeamNames == <<"Team A", "Team B">>

\* categories Team A wins against Team B in week w at revision rev of its data
WonByTeamA(w, rev) == IF (w + rev) % 2 = 1 THEN 5 ELSE 4

\* the snapshot of week w at revision rev (0: the exported file)
WeekSnapshot(w, rev) ==
    [week |-> w, rev |-> rev,
     teams |-> <<[name |-> "Team A",
                  matchup_details |-> <<[opponent |-> "Team B", won |-> WonByTeamA(w, rev)]>>],
                 [name |-> "Team B",
                  matchup_details |-> <<[opponent |-> "Team A", won |-> 9 - WonByTeamA(w, rev)]>>]>>]

NoSnapshot == [week |-> 0, rev |-> 0, teams |-> <<>>]

\* GET /week/<w> and GET /week/<w>?live=true: live data exists for the current
\* week only; every other answer is the exported file
BackendWeek(w, live) ==
    IF live /\ w = CurrentMatchupPeriod THEN WeekSnapshot(w, liveRev) ELSE WeekSnapshot(w, 0)

\* ---- SWR key of the selected week ----
NoKey == <<0, FALSE>>
LiveForEveryWeek(sw, cw) == TRUE
\* selectedWeek === currentWeek ? '?live=true' : ''
LiveFlag(sw, cw) == sw = cw

weekKeyOf(st, sw, cw) == IF st # "" /\ sw # 0 THEN <<sw, LiveFlag(sw, cw)>> ELSE NoKey
WeekKeys == (LoadWeekIds \X BOOLEAN) \cup {NoKey}

\* useSWR(weekKey).data
swrData(key, cache) == IF key = NoKey THEN NoSnapshot ELSE cache[key]
weekKey == weekKeyOf(selectedTeam, selectedWeek, currentWeek)
swrWeekData == swrData(weekKey, swrCache)

EmptyWeeksData == [w \in LoadWeekIds |-> NoSnapshot]
HasKeys(awd) == \E w \in LoadWeekIds : awd[w] # NoSnapshot

\* ---- graph data effect ----
RECURSIVE CountWon(_, _)
CountWon(details, k) ==
    IF k = 0 THEN 0
    ELSE CountWon(details, k - 1) + (IF details[k].won >= 5 THEN 1 ELSE 0)

FindByName(teams, name) ==
    IF \E k \in DOMAIN teams : teams[k].name = name
    THEN CHOOSE k \in DOMAIN teams :
             teams[k].name = name /\ \A j \in 1 .. (k - 1) : teams[j].name # name
    ELSE 0

GraphPoint(st, awd, week) ==
    IF awd[week] = NoSnapshot THEN [week |-> week, teamsBeaten |-> 0]
    ELSE LET k == FindByName(awd[week].teams, st)
         IN IF k = 0 THEN [week |-> week, teamsBeaten |-> 0]
            ELSE [week |-> week,
                  teamsBeaten |-> CountWon(awd[week].teams[k].matchup_details,
                                            Len(awd[week].teams[k].matchup_details))]

GraphOf(st, wks, awd) == [i \in DOMAIN wks |-> GraphPoint(st, awd, wks[i])]

\* the historical load: in flight (active), or settled with the weeks that threw
NoLoad == [active |-> FALSE, historicalWeeks |-> {}, failed |-> {}]

\* a Promise.all that rejects as soon as one fetch throws: nothing is merged
MergeAllOrNothing(prev, results, failed) ==
    IF failed = {} THEN [w \in LoadWeekIds |-> IF w \in results THEN BackendWeek(w, FALSE) ELSE prev[w]]
    ELSE prev

\* for (const r of results) if (r) merged[r.week] = r.data; { ...prev, ...merged }
MergeResults(prev, results, failed) ==
    [w \in LoadWeekIds |-> IF w \in results \ failed THEN BackendWeek(w, FALSE) ELSE prev[w]]

\* what a fetch is logged as
RequestTag(key) == IF key[2] THEN "live" ELSE "plain"

\* ---- one render with its effects ----
\* The state after the component has re-rendered with new weeks, currentWeek,
\* selectedWeek, selectedTeam, SWR cache and allWeeksData awd0, and its effects
\* have run: merge of the SWR week, (re)start of the historical load, graph
\* data.
AfterRender(wks, cw, sw, st, cache, awd0) ==
    LET oldKey == weekKey
        newKey == weekKeyOf(st, sw, cw)
        newData == swrData(newKey, cache)
        mergeRuns == newData # swrWeekData \/ sw # selectedWeek
        merged == IF mergeRuns /\ newData # NoSnapshot /\ sw # 0
                  THEN [awd0 EXCEPT ![sw] = newData]
                  ELSE awd0
        loadRuns == st # selectedTeam \/ sw # selectedWeek \/ wks # weeks
        nothingToLoad == st = "" \/ sw = 0 \/ wks = <<>>
        historical == {wks[i] : i \in DOMAIN wks} \ {sw}
        awd == IF loadRuns /\ nothingToLoad THEN EmptyWeeksData ELSE merged
        keyChanged == newKey # oldKey
    IN [weeks |-> wks, currentWeek |-> cw, selectedWeek |-> sw, selectedTeam |-> st,
        swrCache |-> cache,
        allWeeksData |-> awd,
        load |-> IF ~loadRuns THEN load
                 ELSE IF nothingToLoad THEN NoLoad
                 ELSE [active |-> TRUE, historicalWeeks |-> historical, failed |-> {}],
        loading |-> IF loadRuns /\ ~nothingToLoad THEN TRUE ELSE loading,
        swrPending |-> IF keyChanged THEN newKey # NoKey ELSE swrPending,
        requests |-> requests
                       \cup (IF loadRuns /\ ~nothingToLoad
                             THEN {<<w, "plain">> : w \in historical} ELSE {})
                       \cup (IF keyChanged /\ newKey # NoKey
                             THEN {<<newKey[1], RequestTag(newKey)>>} ELSE {}),
        graphData |-> IF st # "" /\ wks # <<>> /\ HasKeys(awd)
                         /\ (st # selectedTeam \/ wks # weeks \/ awd # allWeeksData)
                      THEN GraphOf(st, wks, awd) ELSE graphData]

Commit(r) ==
    /\ weeks' = r.weeks
    /\ currentWeek' = r.currentWeek
    /\ selectedWeek' = r.selectedWeek
    /\ selectedTeam' = r.selectedTeam
    /\ swrCache' = r.swrCache
    /\ allWeeksData' = r.allWeeksData
    /\ load' = r.load
    /\ loading' = r.loading
    /\ swrPending' = r.swrPending
    /\ requests' = r.requests
    /\ graphData' = r.graphData

\* useSWR(weekKey).isLoading: fetching with nothing to show yet
loadingWeek == swrPending /\ swrWeekData = NoSnapshot

\* the content with the bar graph is rendered
GraphShown ==
    /\ selectedTeam # ""
    /\ ~loading /\ ~loadingWeek
    /\ swrWeekData # NoSnapshot
    /\ FindByName(swrWeekData.teams, selectedTeam) # 0
    /\ Len(graphData) > 0

LIdle ==
    /\ weeks = <<>>
    /\ currentWeek = 0
    /\ selectedWeek = 0
    /\ swrCache = [k \in WeekKeys \ {NoKey} |-> NoSnapshot]
    /\ swrPending = FALSE
    /\ allWeeksData = EmptyWeeksData
    /\ load = NoLoad
    /\ loading = FALSE
    /\ graphData = <<>>
    /\ requests = {}
    /\ liveRev = 1

\* /weeks arrives; the default selectedWeek effect picks the latest week
LoadWeeksList ==
    /\ weeks = <<>>
    /\ LET wks == [i \in LoadWeekIds |-> i]
           sw == IF selectedWeek = 0 THEN LoadWeeks ELSE selectedWeek
       IN Commit(AfterRender(wks, currentWeek, sw, selectedTeam, swrCache, allWeeksData))
    /\ UNCHANGED <<liveRev, notLoad>>

\* /league/summary arrives
LoadSummary ==
    /\ currentWeek = 0
    /\ Commit(AfterRender(weeks, CurrentMatchupPeriod, selectedWeek, selectedTeam,
                          swrCache, allWeeksData))
    /\ UNCHANGED <<liveRev, notLoad>>

\* the week dropdown, or a click on a bar of the graph
SetSelectedWeek(w) ==
    /\ \E i \in DOMAIN weeks : weeks[i] = w
    /\ w # selectedWeek
    /\ Commit(AfterRender(weeks, currentWeek, w, selectedTeam, swrCache, allWeeksData))
    /\ UNCHANGED <<liveRev, notLoad>>

\* the team dropdown
SetSelectedTeam(name) ==
    /\ name # selectedTeam
    /\ Commit(AfterRender(weeks, currentWeek, selectedWeek, name, swrCache, allWeeksData))
    /\ UNCHANGED <<liveRev, notLoad>>

\* SWR's fetch of the selected week's key resolves, with data or with an error
SWRResolve(ok) ==
    /\ swrPending
    /\ weekKey # NoKey
    /\ LET cache == IF ok
                    THEN [swrCache EXCEPT ![weekKey] = BackendWeek(weekKey[1], weekKey[2])]
                    ELSE swrCache
       IN Commit([AfterRender(weeks, currentWeek, selectedWeek, selectedTeam,
                              cache, allWeeksData)
                  EXCEPT !.swrPending = FALSE])
    /\ UNCHANGED <<liveRev, notLoad>>

RefreshAlways == TRUE
\* currentWeek != null && selectedWeek === currentWeek && selectedTeam
RefreshAllowed == currentWeek # 0 /\ selectedWeek = currentWeek /\ selectedTeam # ""

\* the refresh button: mutateWeek() revalidates the selected week's key
refreshCurrentWeek ==
    /\ IF RefreshAllowed
       THEN /\ swrPending' = TRUE
            /\ requests' = requests \cup {<<selectedWeek, "mutate">>}
       ELSE UNCHANGED <<swrPending, requests>>
    /\ UNCHANGED <<weeks, currentWeek, selectedWeek, selectedTeam, swrCache, allWeeksData,
                   load, loading, graphData, liveRev, notLoad>>

\* Promise.all of the historical fetches settles; the weeks in failed threw
LoadResolve(failed) ==
    /\ load.active
    /\ failed \subseteq load.historicalWeeks
    /\ LET merged == MergeResults(allWeeksData, load.historicalWeeks, failed)
       IN Commit([AfterRender(weeks, currentWeek, selectedWeek, selectedTeam,
                              swrCache, merged)
                  EXCEPT !.load = [active |-> FALSE,
                                   historicalWeeks |-> load.historicalWeeks,
                                   failed |-> failed],
                         !.loading = FALSE])
    /\ UNCHANGED <<liveRev, notLoad>>

\* the live data of the current week moves on
LiveUpdate ==
    /\ liveRev < MaxRev
    /\ liveRev' = liveRev + 1
    /\ UNCHANGED <<weeks, currentWeek, selectedWeek, selectedTeam, swrCache, swrPending,
                   allWeeksData, load, loading, graphData, requests, notLoad>>

LNext ==
    \/ LoadWeeksList
    \/ LoadSummary
    \/ \E w \in LoadWeekIds : SetSelectedWeek(w)
    \/ \E name \in {"", LoadTeamNames[1]} : SetSelectedTeam(name)
    \/ \E ok \in BOOLEAN : SWRResolve(ok)
    \/ refreshCurrentWeek
    \/ \E failed \in SUBSET LoadWeekIds : LoadResolve(failed)
    \/ LiveUpdate

(***************************************************************************)
(* Properties of TeamVsLeague's loading.                                   *)
(***************************************************************************)
Concluded == LoadWeekIds \ {CurrentMatchupPeriod}
Stored(w) == allWeeksData[w] # NoSnapshot

C19_MissingWeekNotReportedAsZero ==
    GraphShown =>
        \A i \in DOMAIN graphData :
            ~(allWeeksData[graphData[i].week] = NoSnapshot /\ graphData[i].teamsBeaten = 0)

LoadSettled == ~load.active /\ load.historicalWeeks # {}

FreshWeeks(wks) == wks = <<>>

\* a dependency of [selectedTeam, selectedWeek, apiBase, weeks] has changed
DepsChanged(wks, sw, st) ==
    st # selectedTeam \/ sw # selectedWeek \/ wks # weeks \/ FreshWeeks(wks)

\* a new object passed to setAllWeeksData
NewRef == (allWeeksRef + 1) % 2

\* The state the component's effect state is in when nothing runs.
EffectsIdle ==
    [allWeeksData |-> allWeeksData, allWeeksRef |-> allWeeksRef, load |-> load,
     loading |-> loading, cancelledLoads |-> cancelledLoads, renderPending |-> FALSE]

\* The previous run's cleanup (cancelled = true), then the effect's body.
HistoricalEffect(wks, sw, st) ==
    LET cleaned == IF load.active THEN cancelledLoads \cup {load.historicalWeeks}
                   ELSE cancelledLoads
    IN IF st = "" \/ sw = 0 \/ Len(wks) = 0
       THEN [allWeeksData |-> EmptyWeeksData, allWeeksRef |-> NewRef, load |-> NoLoad,
             loading |-> loading, cancelledLoads |-> cleaned, renderPending |-> TRUE]
       ELSE [allWeeksData |-> allWeeksData, allWeeksRef |-> allWeeksRef,
             load |-> [active |-> TRUE,
                       historicalWeeks |-> {wks[i] : i \in DOMAIN wks} \ {sw},
                       failed |-> {}],
             loading |-> TRUE, cancelledLoads |-> cleaned, renderPending |-> ~loading]

\* One render with weeks wks, selectedWeek sw and selectedTeam st.
RenderWith(wks, sw, st) ==
    IF DepsChanged(wks, sw, st) THEN HistoricalEffect(wks, sw, st) ELSE EffectsIdle

ECommit(wks, sw, st, r) ==
    /\ weeks' = wks
    /\ selectedWeek' = sw
    /\ selectedTeam' = st
    /\ allWeeksData' = r.allWeeksData
    /\ allWeeksRef' = r.allWeeksRef
    /\ load' = r.load
    /\ loading' = r.loading
    /\ cancelledLoads' = r.cancelledLoads
    /\ renderPending' = r.renderPending

\* what the effect runs leave alone
notRuns == <<mvars, pvars, svars, tvars, ivars, cvars, raw_totals, weekData,
             showOpponentModal, wpc, swrCache, swrPending, graphData, requests, liveRev>>

EIdle ==
    /\ cancelledLoads = {}
    /\ cancelledSettled = FALSE
    /\ allWeeksRef = 0
    /\ renderPending = FALSE

\* After mount: the effect has run once and called setAllWeeksData({}).
EStart ==
    /\ cancelledLoads = {}
    /\ cancelledSettled = FALSE
    /\ allWeeksRef = 1
    /\ renderPending = TRUE

\* /weeks arrives; the default-week effect selects the latest week
WeeksArrive ==
    /\ Len(weeks) = 0
    /\ LET wks == [i \in LoadWeekIds |-> i]
           sw == IF selectedWeek = 0 THEN LoadWeeks ELSE selectedWeek
       IN ECommit(wks, sw, selectedTeam, RenderWith(wks, sw, selectedTeam))
    /\ UNCHANGED <<currentWeek, cancelledSettled, notRuns>>

\* /league/summary arrives: currentWeek and the team names
SummaryArrives ==
    /\ currentWeek = 0
    /\ currentWeek' = CurrentMatchupPeriod
    /\ ECommit(weeks, selectedWeek, selectedTeam,
               RenderWith(weeks, selectedWeek, selectedTeam))
    /\ UNCHANGED <<cancelledSettled, notRuns>>

\* the team dropdown (disabled until there are team names)
ChooseTeam(name) ==
    /\ currentWeek # 0
    /\ name # selectedTeam
    /\ ECommit(weeks, selectedWeek, name, RenderWith(weeks, selectedWeek, name))
    /\ UNCHANGED <<currentWeek, cancelledSettled, notRuns>>

\* the week dropdown
ChooseWeek(w) ==
    /\ \E i \in DOMAIN weeks : weeks[i] = w
    /\ w # selectedWeek
    /\ ECommit(weeks, w, selectedTeam, RenderWith(weeks, w, selectedTeam))
    /\ UNCHANGED <<currentWeek, cancelledSettled, notRuns>>

\* a load that writes back whether or not its effect run was cleaned up
WritesBackAlways(cancelled) == TRUE
\* if (cancelled) return ... if (!cancelled) setLoading(false)
WritesBack(cancelled) == ~cancelled

\* load() after its await, for the historical weeks hw of which failed threw
LoadSettles(cancelled, hw, failed) ==
    IF WritesBack(cancelled)
    THEN [EffectsIdle EXCEPT !.allWeeksData = MergeResults(allWeeksData, hw, failed),
                             !.allWeeksRef = NewRef,
                             !.loading = FALSE,
                             !.renderPending = FreshWeeks(weeks)]
    ELSE [EffectsIdle EXCEPT !.renderPending = renderPending]

\* the Promise.all of the latest effect run settles
HistoricalSettles(failed) ==
    /\ load.active
    /\ failed \subseteq load.historicalWeeks
    /\ ECommit(weeks, selectedWeek, selectedTeam,
               [LoadSettles(FALSE, load.historicalWeeks, failed)
                EXCEPT !.load = [active |-> FALSE,
                                 historicalWeeks |-> load.historicalWeeks,
                                 failed |-> failed]])
    /\ UNCHANGED <<currentWeek, cancelledSettled, notRuns>>

\* the Promise.all of a run that was cleaned up settles
CancelledSettles(hw, failed) ==
    /\ hw \in cancelledLoads
    /\ failed \subseteq hw
    /\ ECommit(weeks, selectedWeek, selectedTeam,
               [LoadSettles(TRUE, hw, failed)
                EXCEPT !.cancelledLoads = cancelledLoads \ {hw}])
    /\ cancelledSettled' = TRUE
    /\ UNCHANGED <<currentWeek, notRuns>>

\* the render a state update has scheduled
Render ==
    /\ renderPending
    /\ ECommit(weeks, selectedWeek, selectedTeam,
               RenderWith(weeks, selectedWeek, selectedTeam))
    /\ UNCHANGED <<currentWeek, cancelledSettled, notRuns>>

\* what the user can do
UserActs ==
    \/ \E name \in {"", LoadTeamNames[1]} : ChooseTeam(name)
    \/ \E w \in LoadWeekIds : ChooseWeek(w)

ENext ==
    \/ WeeksArrive
    \/ SummaryArrives
    \/ \E name \in {"", LoadTeamNames[1]} : ChooseTeam(name)
    \/ \E w \in LoadWeekIds : ChooseWeek(w)
    \/ \E failed \in SUBSET LoadWeekIds : HistoricalSettles(failed)
    \/ \E hw \in cancelledLoads : \E failed \in SUBSET hw : CancelledSettles(hw, failed)
    \/ Render

(***************************************************************************)
(* Claims about the effect runs                                            *)
(***************************************************************************)
AllLoadsResolved == ~load.active /\ cancelledLoads = {}

\* C24: once every historical-weeks load that was started has resolved, the
\* loading flag is false.
C24_LoadingClearsOnceLoadsResolve ==
    AllLoadsResolved => ~loading

GainsWeek == \E w \in LoadWeekIds : allWeeksData[w] = NoSnapshot /\ allWeeksData'[w] # NoSnapshot
LatestSettles == load.active /\ ~load'.active /\ load'.historicalWeeks = load.historicalWeeks

\* C25: the step in which a cleaned-up load resolves leaves allWeeksData and
\* loading as they were; allWeeksData gains a week, and loading is cleared,
\* only in the step in which the load of the latest effect run resolves.
C25_CancelledLoadWritesNothing ==
    [][/\ (cancelledLoads' # cancelledLoads /\ cancelledLoads' \subseteq cancelledLoads)
            => /\ allWeeksData' = allWeeksData
               /\ allWeeksRef' = allWeeksRef
               /\ loading' = loading
       /\ GainsWeek => LatestSettles
       /\ (loading /\ ~loading') => LatestSettles]_vars

\* A cleaned-up load has resolved while the load that replaced it is still in
\* flight, and nothing has been stored.
C25_Witness ==
    /\ cancelledSettled
    /\ cancelledLoads = {}
    /\ load.active /\ loading
    /\ ~HasKeys(allWeeksData)

\* C26: if the /weeks response never arrives and the user stops acting, then
\* from some render on no effect schedules a further render.
C26_QuiescentWithoutWeeks ==
    (<>[](Len(weeks) = 0) /\ <>[][~UserActs]_vars) => <>[](~renderPending)

(***************************************************************************)
(* The current week's snapshot in SeasonHistory: one writer replaces it,   *)
(* readers read it field by field.                                         *)
(***************************************************************************)
Readers == 1 .. NumReaders
SnapshotFields == {"teams", "league_avg_minutes"}

\* the immutable snapshot of revision rev: every field carries its revision
SnapshotValue(rev) == [f \in SnapshotFields |-> rev]
NothingRead == [f \in SnapshotFields |-> 0]
IdleReader == [pc |-> "idle", ref |-> NothingRead, got |-> NothingRead]

\* a reader that looks at the store again for every field
ReadFromStore(r) == currentSnapshot
\* a reader reads the fields of the snapshot it took hold of
ReadFrom(r) == readers[r].ref

TIdle ==
    /\ currentSnapshot = NothingRead
    /\ building = NothingRead
    /\ readers = [r \in Readers |-> IdleReader]

TStart ==
    /\ currentSnapshot = SnapshotValue(1)
    /\ building = NothingRead
    /\ readers = [r \in Readers |-> IdleReader]

\* the writer builds the next snapshot aside, one field at a time
BuildField(f) ==
    /\ currentSnapshot["teams"] < MaxRev
    /\ building[f] = 0
    /\ building' = [building EXCEPT ![f] = currentSnapshot["teams"] + 1]
    /\ UNCHANGED <<currentSnapshot, readers, notStore>>

\* ... and swaps it in whole
SwapSnapshot ==
    /\ \A f \in SnapshotFields : building[f] # 0
    /\ currentSnapshot' = building
    /\ building' = NothingRead
    /\ UNCHANGED <<readers, notStore>>

\* a reader takes hold of the current snapshot
BeginRead(r) ==
    /\ readers[r].pc = "idle"
    /\ readers' = [readers EXCEPT ![r] = [pc |-> "reading", ref |-> currentSnapshot,
                                          got |-> NothingRead]]
    /\ UNCHANGED <<currentSnapshot, building, notStore>>

ReadField(r, f) ==
    /\ readers[r].pc = "reading"
    /\ readers[r].got[f] = 0
    /\ readers' = [readers EXCEPT ![r].got[f] = ReadFrom(r)[f]]
    /\ UNCHANGED <<currentSnapshot, building, notStore>>

EndRead(r) ==
    /\ readers[r].pc = "reading"
    /\ \A f \in SnapshotFields : readers[r].got[f] # 0
    /\ readers' = [readers EXCEPT ![r].pc = "done"]
    /\ UNCHANGED <<currentSnapshot, building, notStore>>

NextRead(r) ==
    /\ readers[r].pc = "done"
    /\ readers' = [readers EXCEPT ![r] = IdleReader]
    /\ UNCHANGED <<currentSnapshot, building, notStore>>

TNext ==
    \/ \E f \in SnapshotFields : BuildField(f)
    \/ SwapSnapshot
    \/ \E r \in Readers : BeginRead(r)
    \/ \E r \in Readers : \E f \in SnapshotFields : ReadField(r, f)
    \/ \E r \in Readers : EndRead(r)
    \/ \E r \in Readers : NextRead(r)

\* C18: while the writer replaces the current week's snapshot, what a reader
\* has read so far comes from one snapshot only, and a finished read is a
\* complete snapshot, the old one or the new one.
C18_ReadersSeeWholeSnapshots ==
    \A r \in Readers :
        /\ \A f, g \in SnapshotFields :
              (readers[r].got[f] # 0 /\ readers[r].got[g] # 0) =>
                  readers[r].got[f] = readers[r].got[g]
        /\ readers[r].pc = "done" =>
              \E rev \in 1 .. MaxRev : readers[r].got = SnapshotValue(rev)
        /\ \A f \in SnapshotFields : currentSnapshot[f] = currentSnapshot["teams"]

C18_Witness ==
    /\ readers[1].pc = "done" /\ readers[1].got = SnapshotValue(1)
    /\ readers[2].pc = "done" /\ readers[2].got = SnapshotValue(2)
    /\ currentSnapshot = SnapshotValue(2)

(***************************************************************************)
(* LivePredictions (axios version): the matchup selector, the prediction   *)
(* requests it sends and the order in which their responses arrive.        *)
(***************************************************************************)
\* Number of matchups in the selector.
NumLiveMatchups == 2
\* Number of prediction requests followed.
MaxRequests == 3

\* GET /predictions/matchups: response.data.matchups
LiveMatchups ==
    [i \in 1 .. NumLiveMatchups |->
        [team1 |-> <<"T", UpperChars[2 * i - 1]>>, team2 |-> <<"T", UpperChars[2 * i]>>]]

\* prediction === null
NoLive == [team1 |-> <<>>, team2 |-> <<>>]

\* response.data.predictions[0] of the request sent for matchup m
ResponseTo(m) == [team1 |-> m.team1, team2 |-> m.team2]

\* The part of loadPredictionForMatchup that runs before the await.
loadPredictionForMatchup(m) ==
    /\ issued < MaxRequests
    /\ loadingPrediction' = TRUE
    /\ error' = ""
    /\ inflight' = inflight \cup {[id |-> issued + 1, matchup |-> m]}
    /\ issued' = issued + 1

\* useEffect on [selectedMatchupIndex, matchups]
PredictionEffect(idx, ms) ==
    IF idx # 0 /\ idx \in DOMAIN ms
    THEN loadPredictionForMatchup(ms[idx]) /\ UNCHANGED livePrediction
    ELSE /\ livePrediction' = NoLive
         /\ UNCHANGED <<loadingPrediction, error, inflight, issued>>

\* The component renders the selector (none of the early returns applies).
SelectorShown ==
    /\ ~loadingMatchups
    /\ ~(error # "" /\ livePrediction = NoLive)
    /\ Len(matchups) # 0

\* {prediction && !loadingPrediction && ...}
LivePredictionShown ==
    SelectorShown /\ livePrediction # NoLive /\ ~loadingPrediction

IIdle ==
    /\ matchups = <<>>
    /\ selectedMatchupIndex = 0
    /\ livePrediction = NoLive
    /\ loadingMatchups = FALSE
    /\ loadingPrediction = FALSE
    /\ error = ""
    /\ inflight = {}
    /\ issued = 0

\* After mount: loadMatchupList is waiting for its response.
IStart ==
    /\ matchups = <<>>
    /\ selectedMatchupIndex = 0
    /\ livePrediction = NoLive
    /\ loadingMatchups = TRUE
    /\ loadingPrediction = FALSE
    /\ error = ""
    /\ inflight = {}
    /\ issued = 0

\* loadMatchupList after its await; a new matchups array re-runs the effect.
MatchupsResolve(ok) ==
    /\ loadingMatchups
    /\ loadingMatchups' = FALSE
    /\ IF ok
       THEN /\ matchups' = LiveMatchups
            /\ PredictionEffect(selectedMatchupIndex, LiveMatchups)
       ELSE /\ error' = "Failed to load matchups"
            /\ UNCHANGED <<matchups, livePrediction, loadingPrediction, inflight, issued>>
    /\ UNCHANGED <<selectedMatchupIndex, notLive>>

\* The Retry button of the error screen: loadMatchupList before its await.
RetryMatchups ==
    /\ ~loadingMatchups
    /\ error # "" /\ livePrediction = NoLive
    /\ loadingMatchups' = TRUE
    /\ error' = ""
    /\ UNCHANGED <<matchups, selectedMatchupIndex, livePrediction, loadingPrediction,
                   inflight, issued, notLive>>

\* onChange of the selector, then the effect.
SelectMatchup(idx) ==
    /\ SelectorShown
    /\ idx # selectedMatchupIndex
    /\ selectedMatchupIndex' = idx
    /\ PredictionEffect(idx, matchups)
    /\ UNCHANGED <<matchups, loadingMatchups, notLive>>

\* The Refresh button (rendered when prediction, disabled while loading).
handleRefresh ==
    /\ SelectorShown
    /\ livePrediction # NoLive
    /\ ~loadingPrediction
    /\ selectedMatchupIndex # 0 /\ selectedMatchupIndex \in DOMAIN matchups
    /\ loadPredictionForMatchup(matchups[selectedMatchupIndex])
    /\ UNCHANGED <<matchups, selectedMatchupIndex, livePrediction, loadingMatchups, notLive>>

\* loadPredictionForMatchup after its await: one response arrives.
PredictionResolve(r, outcome) ==
    /\ r \in inflight
    /\ inflight' = inflight \ {r}
    /\ CASE outcome = "prediction" ->
              livePrediction' = ResponseTo(r.matchup) /\ UNCHANGED error
         [] outcome = "empty" ->
              /\ livePrediction' = NoLive
              /\ error' = "No prediction data available for this matchup"
         [] outcome = "error" ->
              /\ error' = "Failed to load prediction"
              /\ livePrediction' = NoLive
    /\ loadingPrediction' = FALSE
    /\ UNCHANGED <<matchups, selectedMatchupIndex, loadingMatchups, issued, notLive>>

INext ==
    \/ \E ok \in BOOLEAN : MatchupsResolve(ok)
    \/ RetryMatchups
    \/ \E idx \in 0 .. NumLiveMatchups : SelectMatchup(idx)
    \/ handleRefresh
    \/ \E r \in inflight, outcome \in {"prediction", "empty", "error"} :
          PredictionResolve(r, outcome)

(***************************************************************************)
(* Claim about LivePredictions                                             *)
(***************************************************************************)
\* C23: whenever loadingPrediction is false and a prediction is shown, it is
\* the response to the request for the currently selected matchup, and
\* loadingPrediction is true while any prediction request is in flight.
C23_ShownPredictionIsForSelectedMatchup ==
    /\ LivePredictionShown =>
         /\ selectedMatchupIndex \in DOMAIN matchups
         /\ livePrediction = ResponseTo(matchups[selectedMatchupIndex])
    /\ inflight # {} => loadingPrediction

(***************************************************************************)
(* Chatbot: the text field, handleSend and the POST /chatbot it awaits.    *)
(***************************************************************************)
\* Number of sends followed.
MaxSends == 2

\* What the user may have typed.
InputTexts == {<<>>, <<" ">>, <<"h">>, <<"h", "i">>, <<" ", "h", "i", " ">>}

\* String.prototype.trim
RECURSIVE trim(_)
trim(s) ==
    IF Len(s) = 0 THEN s
    ELSE IF Head(s) = " " THEN trim(Tail(s))
    ELSE IF s[Len(s)] = " " THEN trim(SubSeq(s, 1, Len(s) - 1))
    ELSE s

\* The message the component starts with.
Greeting == [role |-> "assistant", content |-> <<"greeting">>]

\* handleSend goes on whatever the text field holds.
SendAcceptedWhenBlank(inp, ld) == ~ld

\* if (!input.trim() || loading) return
SendAccepted(inp, ld) == ~(Len(trim(inp)) = 0 \/ ld)

\* The assistant message appended when the request settles.
AssistantMessage(outcome) ==
    [role |-> "assistant",
     content |-> CASE outcome = "response" -> <<"response">>
                   [] outcome = "empty" -> <<"Sorry, I could not generate a response.">>
                   [] outcome = "error" -> <<"Error: ">>]

CIdle ==
    /\ messages = <<Greeting>>
    /\ input = <<>>
    /\ chatLoading = FALSE
    /\ chatPending = <<>>
    /\ sends = 0

\* onChange of the text field (disabled while loading)
SetInput(text) ==
    /\ ~chatLoading
    /\ text # input
    /\ input' = text
    /\ UNCHANGED <<messages, chatLoading, chatPending, sends, notChat>>

\* handleSend up to its await
handleSend ==
    /\ sends < MaxSends
    /\ SendAccepted(input, chatLoading)
    /\ input' = <<>>
    /\ messages' = Append(messages, [role |-> "user", content |-> trim(input)])
    /\ chatLoading' = TRUE
    /\ chatPending' = Append(chatPending, trim(input))
    /\ sends' = sends + 1
    /\ UNCHANGED notChat

\* handleSend after its await: try or catch, then finally
ChatSettle(outcome) ==
    /\ Len(chatPending) > 0
    /\ chatPending' = Tail(chatPending)
    /\ messages' = Append(messages, AssistantMessage(outcome))
    /\ chatLoading' = FALSE
    /\ UNCHANGED <<input, sends, notChat>>

CNext ==
    \/ \E text \in InputTexts : SetInput(text)
    \/ handleSend
    \/ \E outcome \in {"response", "empty", "error"} : ChatSettle(outcome)

(***************************************************************************)
(* Claim about Chatbot                                                     *)
(***************************************************************************)
RoleCount(role) == Cardinality({i \in DOMAIN messages : messages[i].role = role})

\* The greeting followed by user, assistant, user, assistant, ...
Alternating ==
    /\ messages[1] = Greeting
    /\ \A i \in 2 .. Len(messages) :
          messages[i].role = IF i % 2 = 0 THEN "user" ELSE "assistant"

\* C27: a send is accepted only with a non-empty trimmed input and no request
\* pending; each accepted send has added one user message and, once settled,
\* one assistant message, after which loading is false; so whenever loading is
\* false the list is the greeting followed by alternating user and assistant
\* messages.
C27_MessagesAlternate ==
    /\ Len(chatPending) <= 1
    /\ chatLoading <=> (Len(chatPending) = 1)
    /\ RoleCount("user") = sends
    /\ RoleCount("assistant") = 1 + sends - Len(chatPending)
    /\ Alternating
    /\ ~chatLoading => Len(messages) % 2 = 1
    /\ \A i \in DOMAIN messages :
          messages[i].role = "user" =>
             /\ Len(messages[i].content) # 0
             /\ messages[i].content = trim(messages[i].content)

\* Two sends have settled, one of them typed with surrounding blanks and one
\* answered with an error.
C27_Witness ==
    /\ ~chatLoading
    /\ Len(messages) = 5
    /\ \E i \in DOMAIN messages : messages[i] = AssistantMessage("error")
    /\ input = <<" ">>

(***************************************************************************)
(* Specifications                                                          *)
(***************************************************************************)
MInit == MStart /\ WIdle /\ PIdle /\ SIdle /\ LIdle /\ TIdle /\ IIdle /\ CIdle /\ EIdle
SpecMatcher == MInit /\ [][MNext]_vars

WInit == WIdle /\ MIdle /\ PIdle /\ SIdle /\ LIdle /\ TIdle /\ IIdle /\ CIdle /\ EIdle
SpecWeek == WInit /\ [][WNext]_vars

PInit == PStart /\ MIdle /\ WIdle /\ SIdle /\ LIdle /\ TIdle /\ IIdle /\ CIdle /\ EIdle
SpecProjection == PInit /\ [][PNext]_vars

SInit == SStart /\ MIdle /\ WIdle /\ PIdle /\ LIdle /\ TIdle /\ IIdle /\ CIdle /\ EIdle
SpecStats == SInit /\ [][SNext]_vars

LInit == LIdle /\ MIdle /\ WIdle /\ PIdle /\ SIdle /\ TIdle /\ IIdle /\ CIdle /\ EIdle
SpecLoad == LInit /\ [][LNext]_vars

TInit == TStart /\ MIdle /\ WIdle /\ PIdle /\ SIdle /\ LIdle /\ IIdle /\ CIdle /\ EIdle
SpecStore == TInit /\ [][TNext]_vars

IInit == IStart /\ MIdle /\ WIdle /\ PIdle /\ SIdle /\ LIdle /\ TIdle /\ CIdle /\ EIdle
SpecLive == IInit /\ [][INext]_vars

CInit == CIdle /\ MIdle /\ WIdle /\ PIdle /\ SIdle /\ LIdle /\ TIdle /\ IIdle /\ EIdle
SpecChat == CInit /\ [][CNext]_vars

EInit == EStart /\ LIdle /\ MIdle /\ WIdle /\ PIdle /\ SIdle /\ TIdle /\ IIdle /\ CIdle
SpecRuns == EInit /\ [][ENext]_vars
\* React carries out every render it has scheduled.
SpecRunsFair == SpecRuns /\ WF_vars(Render)
====
